---- MODULE Spec2Model ----
(***************************************************************************)
(* Indicator computation and recommendation-scoring engine of              *)
(* market-god-insights (utils/dataHelpers.ts, utils/fundamentalAnalysis.ts,*)
(* utils/technicalAnalysis.ts, utils/analysisUtils.ts), and the state      *)
(* machines of the two components that drive it: the simulated upload of   *)
(* components/dashboard/UploadSection.tsx and the insight effect of        *)
(* components/dashboard/AnalysisDashboard.tsx.                             *)
(*                                                                         *)
(* Numbers are fixed-point integers, exact where the code's thresholds     *)
(* are:                                                                    *)
(*   fundamentals (pe, eps, roe, ...)  thousandths   16.8  -> 16800        *)
(*   sub-scores before toFixed(1)      hundredths     5.5  -> 550          *)
(*   scores as returned                tenths         7.2  -> 72           *)
(*   close, SMA, EMA, bands            hundredths   100.00 -> 10000        *)
(*   RSI                               hundredths     100  -> 10000        *)
(*   confidence                        hundredths     0.5  -> 50           *)
(*   sentiment                         hundredths     0.61 -> 61           *)
(* priceChange is kept as an exact fraction n/d.  toFixed is rounding to   *)
(* the nearest, half away from zero, of the exact value.                   *)
(*                                                                         *)
(* A JavaScript value that may be absent or ill-typed is a record          *)
(* [t, v]: t = "num" (v its value), "undef", "null" or "str" (a string     *)
(* that is not a number).                                                  *)
(***************************************************************************)
EXTENDS Integers, Sequences, FiniteSets, TLC

VARIABLES
    technicalData,    \* the caller's observation array: [kind, items]
    fundamentalData,  \* the caller's fundamentals record: [kind, pe, eps, ...]
    pc,               \* "ready" | "returned" | "thrown"
    op,               \* the engine operation the caller invokes
    numbers,          \* the caller's number array (calculateEMA's input)
    params,           \* the numeric arguments: [period, stdDev, priceLevels]
    ret,              \* what the operation returned
    calls,            \* the engine functions the operation called
    validatedStockData,
                      \* the dashboard's ensureValidData(stockData.data) of a
                      \* sequence that ensureValidData returned: [done, items]
    \* UploadSection
    file,             \* useState<File | null>: NoFile or [id, ext]
    isUploading,      \* useState(false)
    uploadProgress,   \* useState(0)
    isUploaded,       \* useState(false)
    dataType,         \* useState('market'): the data-type toggle
    intervals,        \* the running progress intervals: [file, dataType], the
                      \* file and the dataType their closure captured
    timeouts,         \* the pending processing timeouts: [file, dataType]
    uploaded,         \* the datasets handed to onFileUploaded, in order
    chosen,           \* the number of files handed to handleFile so far
    removed,          \* the files removed while their upload was pending
    \* AnalysisDashboard
    stockData,        \* the stockData prop: [id, dataType, fundamentalData, data]
    analysisComplete, \* useState(false)
    insights,         \* useState<string[]>([])
    deps,             \* the dependency array of the last effect run
    timer,            \* TRUE while the effect's setTimeout is pending
    generated,        \* the runs of generateInsights since stockData changed
    toast             \* the last toast shown

engineVars ==
    <<technicalData, fundamentalData, pc, op, numbers, params, ret, calls,
      validatedStockData>>

uploadVars ==
    <<file, isUploading, uploadProgress, isUploaded, dataType, intervals,
      timeouts, uploaded, chosen, removed>>

dashboardVars ==
    <<stockData, analysisComplete, insights, deps, timer, generated>>

componentVars == <<uploadVars, dashboardVars, toast>>

vars == <<engineVars, componentVars>>

-----------------------------------------------------------------------------
(* JavaScript values *)

Num(v) == [t |-> "num", v |-> v]
Undef == [t |-> "undef", v |-> 0]
Null == [t |-> "null", v |-> 0]
Str == [t |-> "str", v |-> 0]
NaN == [t |-> "nan", v |-> 0]

\* typeof x === 'number'
IsNumber(x) == x.t = "num"

\* x === undefined
IsUndefined(x) == x.t = "undef"

\* ToNumber(x) is a number (not NaN): numbers, and null which converts to 0
Comparable(x) == x.t \in {"num", "null"}

NumberOf(x) == IF x.t = "num" THEN x.v ELSE 0

\* x < k, x > k with a numeric literal k: false when x converts to NaN
JsLt(x, k) == Comparable(x) /\ NumberOf(x) < k
JsGt(x, k) == Comparable(x) /\ NumberOf(x) > k

\* !x for a field value
IsFalsy(x) == x.t \in {"undef", "null"} \/ (x.t = "num" /\ x.v = 0)

\* n/d rounded to the nearest integer, half away from zero (d > 0): toFixed
RoundDiv(n, d) ==
    IF n >= 0 THEN (2 * n + d) \div (2 * d)
              ELSE -((2 * (-n) + d) \div (2 * d))

Max(a, b) == IF a >= b THEN a ELSE b
Min(a, b) == IF a <= b THEN a ELSE b

RECURSIVE SumSeq(_)
SumSeq(s) == IF s = <<>> THEN 0 ELSE Head(s) + SumSeq(Tail(s))

-----------------------------------------------------------------------------
(* Observations.  kind: "obj" an object, "null" a null or undefined entry,  *)
(* "prim" another non-object (its property reads give undefined).           *)
(* date: 0 = absent or empty, otherwise a day number.                       *)

Today == 9

Point(d, c, s, v) ==
    [kind |-> "obj", date |-> d, close |-> c, sentiment |-> s, volume |-> v,
     keywords |-> <<>>]

\* a document observation: sentiment and keywords, no price
DocPoint(d, s, k) ==
    [kind |-> "obj", date |-> d, close |-> Undef, sentiment |-> s,
     volume |-> Undef, keywords |-> k]

NonObject(k) ==
    [kind |-> k, date |-> 0, close |-> Undef, sentiment |-> Undef,
     volume |-> Undef, keywords |-> <<>>]

\* data[i] && ... , !item: the entry is truthy
Truthy(item) == item.kind # "null"

Array(items) == [kind |-> "array", items |-> items]
NullData == [kind |-> "null", items |-> <<>>]
\* a truthy value that is no array: no slice method, length not 0
NonArrayData == [kind |-> "nonarray", items |-> <<>>]

-----------------------------------------------------------------------------
(* utils/fundamentalAnalysis.ts *)

Fundamentals(pe, eps, roe, de, cr, qr, pm, dy) ==
    [kind |-> "record", pe |-> pe, eps |-> eps, roe |-> roe,
     debtToEquity |-> de, currentRatio |-> cr, quickRatio |-> qr,
     profitMargin |-> pm, dividendYield |-> dy]

NoFundamentals ==
    [kind |-> "null", pe |-> Undef, eps |-> Undef, roe |-> Undef,
     debtToEquity |-> Undef, currentRatio |-> Undef, quickRatio |-> Undef,
     profitMargin |-> Undef, dividendYield |-> Undef]

\* Math.max(0, Math.min(10, score)), score in hundredths
Clamp010(score) == Max(0, Min(1000, score))

\* the value score without the dividend-yield tiers
ValueScoreNoDividend(data) ==
    LET peAdj == IF JsLt(data.pe, 10000) THEN 200
                 ELSE IF JsLt(data.pe, 15000) THEN 100
                 ELSE IF JsGt(data.pe, 30000) THEN -100
                 ELSE IF JsGt(data.pe, 50000) THEN -200
                 ELSE 0
        epsAdj == (IF JsGt(data.eps, 5000) THEN 100 ELSE 0)
                  + (IF JsGt(data.eps, 10000) THEN 50 ELSE 0)
    IN  Clamp010(500 + peAdj + epsAdj)

calculateValueScore(data) ==
    LET peAdj == IF JsLt(data.pe, 10000) THEN 200
                 ELSE IF JsLt(data.pe, 15000) THEN 100
                 ELSE IF JsGt(data.pe, 30000) THEN -100
                 ELSE IF JsGt(data.pe, 50000) THEN -200
                 ELSE 0
        epsAdj == (IF JsGt(data.eps, 5000) THEN 100 ELSE 0)
                  + (IF JsGt(data.eps, 10000) THEN 50 ELSE 0)
        dyAdj == IF JsGt(data.dividendYield, 50) THEN 150
                 ELSE IF JsGt(data.dividendYield, 30) THEN 100
                 ELSE IF JsGt(data.dividendYield, 10) THEN 50
                 ELSE 0
    IN  Clamp010(500 + peAdj + epsAdj + dyAdj)

calculateGrowthScore(data) ==
    LET roeAdj == IF JsGt(data.roe, 200) THEN 200
                  ELSE IF JsGt(data.roe, 150) THEN 150
                  ELSE IF JsGt(data.roe, 100) THEN 100
                  ELSE IF JsLt(data.roe, 50) THEN -100
                  ELSE 0
        pmAdj == IF JsGt(data.profitMargin, 200) THEN 200
                 ELSE IF JsGt(data.profitMargin, 100) THEN 100
                 ELSE IF JsLt(data.profitMargin, 50) THEN -50
                 ELSE IF JsLt(data.profitMargin, 0) THEN -150
                 ELSE 0
    IN  Clamp010(500 + roeAdj + pmAdj)

calculateStabilityScore(data) ==
    LET deAdj == IF JsLt(data.debtToEquity, 300) THEN 200
                 ELSE IF JsLt(data.debtToEquity, 500) THEN 100
                 ELSE IF JsGt(data.debtToEquity, 1000) THEN -100
                 ELSE IF JsGt(data.debtToEquity, 1500) THEN -200
                 ELSE 0
        crAdj == IF JsGt(data.currentRatio, 2000) THEN 150
                 ELSE IF JsGt(data.currentRatio, 1500) THEN 100
                 ELSE IF JsLt(data.currentRatio, 1000) THEN -100
                 ELSE 0
        qrAdj == IF JsGt(data.quickRatio, 1500) THEN 150
                 ELSE IF JsGt(data.quickRatio, 1000) THEN 100
                 ELSE IF JsLt(data.quickRatio, 700) THEN -100
                 ELSE 0
    IN  Clamp010(500 + deAdj + crAdj + qrAdj)

\* the mean taken over two of the three sub-scores
FundamentalScoresNoStability(data) ==
    LET valueScore == calculateValueScore(data)
        growthScore == calculateGrowthScore(data)
        stabilityScore == calculateStabilityScore(data)
    IN  [valueScore |-> RoundDiv(valueScore, 10),
         growthScore |-> RoundDiv(growthScore, 10),
         stabilityScore |-> RoundDiv(stabilityScore, 10),
         overallScore |-> RoundDiv(valueScore + growthScore, 20)]

\* scores as returned, in tenths: parseFloat(x.toFixed(1))
calculateFundamentalScores(data) ==
    LET valueScore == calculateValueScore(data)
        growthScore == calculateGrowthScore(data)
        stabilityScore == calculateStabilityScore(data)
    IN  [valueScore |-> RoundDiv(valueScore, 10),
         growthScore |-> RoundDiv(growthScore, 10),
         stabilityScore |-> RoundDiv(stabilityScore, 10),
         overallScore |->
             RoundDiv(valueScore + growthScore + stabilityScore, 30)]

-----------------------------------------------------------------------------
(* utils/technicalAnalysis.ts *)

RsiPeriod == 14
BollingerPeriod == 20
BollingerStdDev == 2
PriceLevels == 10

\* changes[i-1] = data[i].close - data[i-1].close, or 0 for an invalid pair
Changes(items) ==
    [i \in 1..(Len(items) - 1) |->
        IF /\ Truthy(items[i + 1]) /\ Truthy(items[i])
           /\ IsNumber(items[i + 1].close) /\ IsNumber(items[i].close)
        THEN items[i + 1].close.v - items[i].close.v
        ELSE 0]

\* the gain test first: a window without a gain gives 0
RsiAtGainFirst(changes, i, period) ==
    LET slice == [j \in 1..period |-> changes[i - period + j]]
        gains == SumSeq([j \in 1..period |->
                            IF slice[j] > 0 THEN slice[j] ELSE 0])
        losses == SumSeq([j \in 1..period |->
                            IF slice[j] < 0 THEN -slice[j] ELSE 0])
    IN  IF gains = 0 THEN 0
        ELSE RoundDiv(10000 * gains, gains + losses)

\* a window without any change read as neutral
RsiAtFlatNeutral(changes, i, period) ==
    LET slice == [j \in 1..period |-> changes[i - period + j]]
        gains == SumSeq([j \in 1..period |->
                            IF slice[j] > 0 THEN slice[j] ELSE 0])
        losses == SumSeq([j \in 1..period |->
                            IF slice[j] < 0 THEN -slice[j] ELSE 0])
    IN  IF losses = 0 THEN (IF gains = 0 THEN 5000 ELSE 10000)
        ELSE RoundDiv(10000 * gains, gains + losses)

\* the RSI of the window of `period` changes that ends at changes[i]
RsiAt(changes, i, period) ==
    LET slice == [j \in 1..period |-> changes[i - period + j]]
        gains == SumSeq([j \in 1..period |->
                            IF slice[j] > 0 THEN slice[j] ELSE 0])
        losses == SumSeq([j \in 1..period |->
                            IF slice[j] < 0 THEN -slice[j] ELSE 0])
    IN  IF losses = 0 THEN 10000
        ELSE RoundDiv(10000 * gains, gains + losses)

\* the loop stopped one window early: i < changes.length
calculateRSIShort(data, period) ==
    IF data.kind # "array" \/ Len(data.items) <= period THEN <<>>
    ELSE LET changes == Changes(data.items)
         IN  [k \in 1..(Len(changes) - period) |->
                 RsiAt(changes, period + k - 1, period)]

calculateRSI(data, period) ==
    IF data.kind # "array" \/ Len(data.items) <= period THEN <<>>
    ELSE LET changes == Changes(data.items)
         IN  [k \in 1..(Len(changes) - period + 1) |->
                 RsiAt(changes, period + k - 1, period)]

\* the window of `period` points that ends at items[i]
SmaWindow(items, i, period) ==
    LET closes == [j \in 1..period |->
                      LET item == items[i - j + 1]
                      IN  IF Truthy(item) /\ IsNumber(item.close)
                          THEN <<item.close.v, 1>> ELSE <<0, 0>>]
    IN  [sum |-> SumSeq([j \in 1..period |-> closes[j][1]]),
         validPoints |-> SumSeq([j \in 1..period |-> closes[j][2]])]

\* the source positions (1-based) of the windows that calculateSMA emits
SmaEnds(items, period) ==
    LET HasValid(i) == SmaWindow(items, i, period).validPoints > 0
    IN  SelectSeq([k \in 1..(Len(items) - period + 1) |-> k + period - 1],
                  HasValid)

calculateSMA(data, period) ==
    IF data.kind # "array" \/ Len(data.items) < period THEN <<>>
    ELSE LET ends == SmaEnds(data.items, period)
         IN  [k \in 1..Len(ends) |->
                 LET w == SmaWindow(data.items, ends[k], period)
                 IN  RoundDiv(w.sum, w.validPoints)]

\* x || 0 for a number that may be NaN or undefined
OrZero(x) == IF x.t = "num" THEN x.v ELSE 0

RECURSIVE EmaFrom(_, _, _, _)
EmaFrom(data, period, i, ema) ==
    IF i > Len(data) THEN ema
    ELSE EmaFrom(data, period, i + 1,
                 Append(ema, RoundDiv(2 * OrZero(data[i])
                                      + (period - 1) * ema[Len(ema)],
                                      period + 1)))

\* data: a sequence of numbers (Num or NaN); the result has no NaN
calculateEMA(data, period) ==
    LET n == Min(period, Len(data))
        seed == RoundDiv(SumSeq([i \in 1..n |-> OrZero(data[i])]), period)
    IN  EmaFrom(data, period, period + 1, <<seed>>)

\* ema12[i] - ema26[i + shift] for the 0-based i >= shift; reading ema26
\* outside its indices gives undefined and the difference is NaN
MacdLine(ema12, ema26) ==
    LET shift == Len(ema26) - Len(ema12)
        first == Max(0, shift)
    IN  [k \in 1..(Len(ema12) - first) |->
            LET i == first + k - 1
                j == i + shift
            IN  IF j >= 0 /\ j < Len(ema26)
                THEN Num(ema12[i + 1] - ema26[j + 1])
                ELSE NaN]

Histogram(macd, signal) ==
    [k \in 1..Len(signal) |->
        LET j == k + (Len(macd) - Len(signal))
        IN  IF j >= 1 /\ j <= Len(macd) /\ macd[j].t = "num"
            THEN Num(macd[j].v - signal[k])
            ELSE NaN]

calculateMACD(data) ==
    IF data.kind # "array"
       \/ \E i \in 1..Len(data.items) : data.items[i].kind = "null"
    THEN \* data.map is not a function, or d.close of null
         [threw |-> TRUE, value |-> <<>>, calls |-> {}]
    ELSE LET closePrices == [i \in 1..Len(data.items) |->
                                Num(OrZero(data.items[i].close))]
             ema12 == calculateEMA(closePrices, 12)
             ema26 == calculateEMA(closePrices, 26)
             macd == MacdLine(ema12, ema26)
             signal == calculateEMA(macd, 9)
         IN  [threw |-> FALSE,
              value |-> [macd |-> macd, signal |-> signal,
                         histogram |-> Histogram(macd, signal)],
              calls |-> {"calculateEMA"}]

\* r <= sqrt(n/d) + 1/2, for r >= 0
SqrtHalfUpOk(r, n, d) == r = 0 \/ (2 * r - 1) * (2 * r - 1) * d <= 4 * n

RECURSIVE SqrtHalfUpAbove(_, _, _)
SqrtHalfUpAbove(h, n, d) ==
    IF SqrtHalfUpOk(h, n, d) THEN SqrtHalfUpAbove(2 * h, n, d) ELSE h

RECURSIVE SqrtHalfUpBetween(_, _, _, _)
SqrtHalfUpBetween(lo, hi, n, d) ==
    IF hi - lo <= 1 THEN lo
    ELSE LET mid == (lo + hi) \div 2
         IN  IF SqrtHalfUpOk(mid, n, d) THEN SqrtHalfUpBetween(mid, hi, n, d)
             ELSE SqrtHalfUpBetween(lo, mid, n, d)

\* Math.sqrt(n/d) rounded to the nearest integer, half up: the largest r
\* with r <= sqrt(n/d) + 1/2
SqrtHalfUp(n, d) == SqrtHalfUpBetween(0, SqrtHalfUpAbove(1, n, d), n, d)

\* r >= sqrt(n/d) - 1/2, for r >= 0
SqrtHalfDownOk(r, n, d) == (2 * r + 1) * (2 * r + 1) * d >= 4 * n

RECURSIVE SqrtHalfDownAbove(_, _, _)
SqrtHalfDownAbove(h, n, d) ==
    IF SqrtHalfDownOk(h, n, d) THEN h ELSE SqrtHalfDownAbove(2 * h, n, d)

RECURSIVE SqrtHalfDownBetween(_, _, _, _)
SqrtHalfDownBetween(lo, hi, n, d) ==
    IF hi - lo <= 1 THEN hi
    ELSE LET mid == (lo + hi) \div 2
         IN  IF SqrtHalfDownOk(mid, n, d) THEN SqrtHalfDownBetween(lo, mid, n, d)
             ELSE SqrtHalfDownBetween(mid, hi, n, d)

\* Math.sqrt(n/d) rounded to the nearest integer, half down: the smallest r
\* with r >= sqrt(n/d) - 1/2
SqrtHalfDown(n, d) ==
    IF SqrtHalfDownOk(0, n, d) THEN 0
    ELSE SqrtHalfDownBetween(0, SqrtHalfDownAbove(1, n, d), n, d)

\* the bands of the window that ends at items[i], around the value that
\* calculateBollingerBands reads at middle[i - period + 1] (0-based i)
BandsAt(items, middle, i, period, stdDev) ==
    LET k == i - period + 1
    IN  IF k > Len(middle) THEN [upper |-> NaN, lower |-> NaN]
        ELSE
        LET mid == middle[k]
            sq == [j \in 1..period |->
                      LET item == items[i - j + 1]
                      IN  IF Truthy(item) /\ IsNumber(item.close)
                          THEN <<(item.close.v - mid) * (item.close.v - mid), 1>>
                          ELSE <<0, 0>>]
            sum == SumSeq([j \in 1..period |-> sq[j][1]])
            count == SumSeq([j \in 1..period |-> sq[j][2]])
            den == IF count > 0 THEN count ELSE 1
            n == stdDev * stdDev * sum
            lowNonNeg == mid >= 0 /\ mid * mid * den >= n
        IN  [upper |-> Num(mid + SqrtHalfUp(n, den)),
             lower |-> Num(mid - (IF lowNonNeg THEN SqrtHalfDown(n, den)
                                  ELSE SqrtHalfUp(n, den)))]

calculateBollingerBands(data, period, stdDev) ==
    IF data.kind = "null"
    THEN \* data.length of null
         [threw |-> TRUE, value |-> <<>>, calls |-> {"calculateSMA"}]
    ELSE LET middle == calculateSMA(data, period)
             n == Len(data.items)
             bands == [k \in 1..Max(0, n - period + 1) |->
                          BandsAt(data.items, middle, k + period - 1, period,
                                  stdDev)]
         IN  [threw |-> FALSE,
              value |-> [upper |-> [k \in DOMAIN bands |-> bands[k].upper],
                         middle |-> middle,
                         lower |-> [k \in DOMAIN bands |-> bands[k].lower]],
              calls |-> {"calculateSMA"}]

\* typeof d.close === 'number' && typeof d.volume === 'number' && d.volume > 0
HasPriceAndVolume(d) == IsNumber(d.close) /\ IsNumber(d.volume) /\ d.volume.v > 0

SeqMin(s) == CHOOSE x \in {s[i] : i \in DOMAIN s} : \A i \in DOMAIN s : x <= s[i]
SeqMax(s) == CHOOSE x \in {s[i] : i \in DOMAIN s} : \A i \in DOMAIN s : x >= s[i]

\* the bin i (0-based) of [minPrice, maxPrice] cut in priceLevels bins:
\* lowerBound = minPrice + priceStep * i, compared exactly
VolumeBin(validData, minPrice, maxPrice, i, priceLevels) ==
    LET InBin(d) ==
            /\ d.close.v * priceLevels
                   >= minPrice * priceLevels + (maxPrice - minPrice) * i
            /\ d.close.v * priceLevels
                   < minPrice * priceLevels + (maxPrice - minPrice) * (i + 1)
    IN  [price |-> RoundDiv(2 * priceLevels * minPrice
                            + (maxPrice - minPrice) * (2 * i + 1),
                            2 * priceLevels),
         volume |-> SumSeq([k \in 1..Len(validData) |->
                              IF InBin(validData[k])
                              THEN validData[k].volume.v ELSE 0])]

calculateVolumeProfile(data, priceLevels) ==
    IF data.kind # "array"
       \/ \E i \in 1..Len(data.items) : data.items[i].kind = "null"
    THEN \* data.filter is not a function, or d.close of null
         [threw |-> TRUE, value |-> <<>>, calls |-> {}]
    ELSE LET validData == SelectSeq(data.items, HasPriceAndVolume)
         IN  IF Len(validData) = 0
             THEN [threw |-> FALSE, value |-> <<>>, calls |-> {}]
             ELSE LET prices == [k \in 1..Len(validData) |->
                                    validData[k].close.v]
                      minPrice == SeqMin(prices)
                      maxPrice == SeqMax(prices)
                  IN  [threw |-> FALSE,
                       value |-> [i \in 1..priceLevels |->
                                     VolumeBin(validData, minPrice, maxPrice,
                                               i - 1, priceLevels)],
                       calls |-> {}]

-----------------------------------------------------------------------------
(* utils/analysisUtils.ts: the recommendation engine *)

\* an exact fraction n/d, d # 0, against an integer k
FracGt(f, k) == IF f.d > 0 THEN f.n > k * f.d ELSE f.n < k * f.d
FracLt(f, k) == IF f.d > 0 THEN f.n < k * f.d ELSE f.n > k * f.d

\* technicalData.slice(-periodLength), periodLength = Math.min(20, length)
RecentData(items) ==
    LET periodLength == Min(20, Len(items))
    IN  SubSeq(items, Len(items) - periodLength + 1, Len(items))

\* first and last exchanged
PriceChangeReversed(recentData) ==
    LET first == recentData[1]
        last == recentData[Len(recentData)]
    IN  IF /\ Len(recentData) >= 2
           /\ IsNumber(last.close)
           /\ IsNumber(first.close)
           /\ last.close.v # 0
        THEN [n |-> 100 * (first.close.v - last.close.v), d |-> last.close.v]
        ELSE [n |-> 0, d |-> 1]

\* the percentage change over recentData, as the fraction n/d
PriceChange(recentData) ==
    LET first == recentData[1]
        last == recentData[Len(recentData)]
    IN  IF /\ Len(recentData) >= 2
           /\ IsNumber(last.close)
           /\ IsNumber(first.close)
           /\ first.close.v # 0
        THEN [n |-> 100 * (last.close.v - first.close.v), d |-> first.close.v]
        ELSE [n |-> 0, d |-> 1]

\* an empty series read as oversold
LastRsiOversold(rsiValues) ==
    IF Len(rsiValues) > 0 THEN rsiValues[Len(rsiValues)] ELSE 0

\* the last RSI value, 50 when the series is empty
LastRsi(rsiValues) ==
    IF Len(rsiValues) > 0 THEN rsiValues[Len(rsiValues)] ELSE 5000

Summary(text, p, n, verb, percent) ==
    [text |-> text, positives |-> p, negatives |-> n, verb |-> verb,
     percent |-> percent]

InsufficientData ==
    [recommendation |-> "HOLD",
     confidence |-> 50,
     positivePoints |-> <<>>,
     negativePoints |-> <<"Insufficient data for analysis">>,
     summary |-> Summary("Unable to analyze due to insufficient data.",
                         0, 0, "", 0)]

ErrorFallback ==
    [recommendation |-> "HOLD",
     confidence |-> 50,
     positivePoints |-> <<>>,
     negativePoints |-> <<"Error during analysis">>,
     summary |-> Summary("An error occurred while analyzing the data.",
                         0, 0, "", 0)]

ToLowerCase(recommendation) ==
    CASE recommendation = "STRONG BUY" -> "strong buy"
      [] recommendation = "BUY" -> "buy"
      [] recommendation = "HOLD" -> "hold"
      [] recommendation = "SELL" -> "sell"
      [] recommendation = "STRONG SELL" -> "strong sell"

\* the clamp left out
UnclampedConfidence(confidence) == confidence

\* Math.max(0.3, Math.min(0.9, confidence))
ClampConfidence(confidence) == Max(30, Min(90, confidence))

\* overallScore / 100 in place of overallScore / 10
RecommendScoreOverHundred(overallScore, priceChange, rsi) ==
    LET base == (overallScore \div 10)
                - (IF rsi > 7000 THEN 20 ELSE 0)
                + (IF rsi < 3000 THEN 20 ELSE 0)
    IN  IF FracGt(priceChange, 80 - base) THEN "STRONG BUY"
        ELSE IF FracGt(priceChange, 30 - base) THEN "BUY"
        ELSE IF FracLt(priceChange, -80 - base) THEN "STRONG SELL"
        ELSE IF FracLt(priceChange, -30 - base) THEN "SELL"
        ELSE "HOLD"

\* the oversold bonus subtracted
RecommendOversoldPenalised(overallScore, priceChange, rsi) ==
    LET base == overallScore
                - (IF rsi > 7000 THEN 20 ELSE 0)
                - (IF rsi < 3000 THEN 20 ELSE 0)
    IN  IF FracGt(priceChange, 80 - base) THEN "STRONG BUY"
        ELSE IF FracGt(priceChange, 30 - base) THEN "BUY"
        ELSE IF FracLt(priceChange, -80 - base) THEN "STRONG SELL"
        ELSE IF FracLt(priceChange, -30 - base) THEN "SELL"
        ELSE "HOLD"

\* the composite score against the thresholds: score * 100 = base + n/d
Recommend(overallScore, priceChange, rsi) ==
    LET base == overallScore
                - (IF rsi > 7000 THEN 20 ELSE 0)
                + (IF rsi < 3000 THEN 20 ELSE 0)
    IN  IF FracGt(priceChange, 80 - base) THEN "STRONG BUY"
        ELSE IF FracGt(priceChange, 30 - base) THEN "BUY"
        ELSE IF FracLt(priceChange, -80 - base) THEN "STRONG SELL"
        ELSE IF FracLt(priceChange, -30 - base) THEN "SELL"
        ELSE "HOLD"

\* the confidence moved without an evidence string
RsiAdjustmentSilent(rsi) ==
    IF rsi > 7000
    THEN [c |-> -10, p |-> <<>>, n |-> <<>>]
    ELSE IF rsi < 3000
    THEN [c |-> 10, p |-> <<>>, n |-> <<>>]
    ELSE [c |-> 0, p |-> <<>>, n |-> <<>>]

\* if (rsi > 70) ... else if (rsi < 30) ...: the change of the confidence and
\* the evidence string pushed
RsiAdjustment(rsi) ==
    IF rsi > 7000
    THEN [c |-> -10, p |-> <<>>, n |-> <<"Overbought conditions">>]
    ELSE IF rsi < 3000
    THEN [c |-> 10, p |-> <<"Oversold conditions">>, n |-> <<>>]
    ELSE [c |-> 0, p |-> <<>>, n |-> <<>>]

\* the body of the try block; threw = TRUE when a statement of it throws
RecommendationTry(td, fd) ==
    IF td.kind # "array"
    THEN \* technicalData.slice is not a function
         [threw |-> TRUE, value |-> ErrorFallback,
          calls |-> {"calculateFundamentalScores"}]
    ELSE
    LET overallScore == calculateFundamentalScores(fd).overallScore
        periodLength == Min(20, Len(td.items))
        priceChange == PriceChange(RecentData(td.items))
        rsi == LastRsi(calculateRSI(td, RsiPeriod))
        scoreAdj ==
            IF overallScore > 70
            THEN [c |-> 10, p |-> <<"Strong fundamental indicators">>, n |-> <<>>]
            ELSE IF overallScore > 50
            THEN [c |-> 5, p |-> <<"Decent fundamental health">>, n |-> <<>>]
            ELSE IF overallScore < 40
            THEN [c |-> -10, p |-> <<>>, n |-> <<"Weak fundamental indicators">>]
            ELSE [c |-> 0, p |-> <<>>, n |-> <<>>]
        peAdj ==
            IF JsLt(fd.pe, 15000) /\ JsGt(fd.pe, 0)
            THEN [c |-> 5, p |-> <<"Attractive P/E ratio">>, n |-> <<>>]
            ELSE IF JsGt(fd.pe, 30000)
            THEN [c |-> -5, p |-> <<>>, n |-> <<"High P/E ratio">>]
            ELSE [c |-> 0, p |-> <<>>, n |-> <<>>]
        deAdj ==
            IF JsLt(fd.debtToEquity, 500)
            THEN [c |-> 5, p |-> <<"Low debt-to-equity ratio">>, n |-> <<>>]
            ELSE IF JsGt(fd.debtToEquity, 1200)
            THEN [c |-> -5, p |-> <<>>, n |-> <<"High debt-to-equity ratio">>]
            ELSE [c |-> 0, p |-> <<>>, n |-> <<>>]
        dyAdj ==
            IF JsGt(fd.dividendYield, 40)
            THEN [c |-> 5, p |-> <<"Strong dividend yield">>, n |-> <<>>]
            ELSE [c |-> 0, p |-> <<>>, n |-> <<>>]
        pcAdj ==
            IF FracGt(priceChange, 10)
            THEN [c |-> 10, p |-> <<"Strong recent uptrend">>, n |-> <<>>]
            ELSE IF FracGt(priceChange, 5)
            THEN [c |-> 5, p |-> <<"Positive price momentum">>, n |-> <<>>]
            ELSE IF FracLt(priceChange, -10)
            THEN [c |-> -10, p |-> <<>>, n |-> <<"Sharp recent decline">>]
            ELSE IF FracLt(priceChange, -5)
            THEN [c |-> -5, p |-> <<>>, n |-> <<"Negative price action">>]
            ELSE [c |-> 0, p |-> <<>>, n |-> <<>>]
        rsiAdj == RsiAdjustment(rsi)
        positivePoints == scoreAdj.p \o peAdj.p \o deAdj.p \o dyAdj.p
                          \o pcAdj.p \o rsiAdj.p
        negativePoints == scoreAdj.n \o peAdj.n \o deAdj.n \o dyAdj.n
                          \o pcAdj.n \o rsiAdj.n
        recommendation == Recommend(overallScore, priceChange, rsi)
        confidence == ClampConfidence(50 + scoreAdj.c + peAdj.c + deAdj.c
                                      + dyAdj.c + pcAdj.c + rsiAdj.c)
    IN  [threw |-> FALSE,
         value |->
            [recommendation |-> recommendation,
             confidence |-> confidence,
             positivePoints |-> positivePoints,
             negativePoints |-> negativePoints,
             summary |-> Summary("Based on ... factors, we ... this stock",
                                 Len(positivePoints), Len(negativePoints),
                                 ToLowerCase(recommendation), confidence)],
         calls |-> {"calculateFundamentalScores", "calculateRSI"}]

\* the empty-sequence test left out of the guard
IsInsufficientNoLength(td, fd) == td.kind = "null" \/ fd.kind = "null"

\* !technicalData || technicalData.length === 0 || !fundamentalData
IsInsufficient(td, fd) ==
    \/ td.kind = "null"
    \/ (td.kind = "array" /\ Len(td.items) = 0)
    \/ fd.kind = "null"

\* a catch that lets the error through
CatchRethrow(attempt) == attempt

\* catch (error) { ... return fallback }
Catch(attempt) ==
    IF attempt.threw
    THEN [threw |-> FALSE, value |-> ErrorFallback, calls |-> attempt.calls]
    ELSE attempt

generateRecommendation(td, fd) ==
    IF IsInsufficient(td, fd)
    THEN [threw |-> FALSE, value |-> InsufficientData, calls |-> {}]
    ELSE Catch(RecommendationTry(td, fd))

-----------------------------------------------------------------------------
(* utils/analysisUtils.ts: the sentiment summarizer *)

\* d.sentiment !== undefined
HasSentiment(d) == ~IsUndefined(d.sentiment)

\* data.some(d => d.sentiment !== undefined) reads d.sentiment of a null
\* entry: it visits the entries in order up to the first that qualifies
SomeThrows(items) ==
    \E i \in 1..Len(items) :
        /\ items[i].kind = "null"
        /\ \A j \in 1..(i - 1) : ~HasSentiment(items[j])

\* the entries without sentiment removed from the array itself
FilterInPlace(items) ==
    [fresh |-> FALSE, items |-> SelectSeq(items, HasSentiment)]

\* data.filter(d => d.sentiment !== undefined): a new array
FilterHasSentiment(items) ==
    [fresh |-> TRUE, items |-> SelectSeq(items, HasSentiment)]

\* new Date(a.date).getTime() - new Date(b.date).getTime() <= 0; an invalid
\* date makes the difference NaN, which sort takes as 0
DateLeq(a, b) == a.date = 0 \/ b.date = 0 \/ a.date <= b.date

RECURSIVE InsertByDate(_, _)
InsertByDate(sorted, x) ==
    IF sorted = <<>> THEN <<x>>
    ELSE IF DateLeq(sorted[Len(sorted)], x) THEN Append(sorted, x)
    ELSE Append(InsertByDate(SubSeq(sorted, 1, Len(sorted) - 1), x),
                sorted[Len(sorted)])

RECURSIVE SortByDateFrom(_, _, _)
SortByDateFrom(items, i, sorted) ==
    IF i > Len(items) THEN sorted
    ELSE SortByDateFrom(items, i + 1, InsertByDate(sorted, items[i]))

\* the filtered points left in the order they were passed in
ArrayUnsorted(array) == array

\* array.sort(by date): stable, in place, the same array object
ArraySortByDate(array) ==
    [fresh |-> array.fresh, items |-> SortByDateFrom(array.items, 1, <<>>)]

\* sum of (item.sentiment || 0)
SentimentSum(items) ==
    SumSeq([i \in 1..Len(items) |-> OrZero(items[i].sentiment)])

\* the trend of the date-ordered qualifying points
Trend(sentimentData) ==
    IF Len(sentimentData) < 3 THEN "stable"
    ELSE LET half == Len(sentimentData) \div 2
             firstHalf == SubSeq(sentimentData, 1, half)
             secondHalf == SubSeq(sentimentData, half + 1, Len(sentimentData))
             \* (secondHalfAvg - firstHalfAvg) * n1 * n2, in hundredths
             change == SentimentSum(secondHalf) * Len(firstHalf)
                       - SentimentSum(firstHalf) * Len(secondHalf)
             unit == Len(firstHalf) * Len(secondHalf)
         IN  IF change > 10 * unit THEN "improving"
             ELSE IF change < -10 * unit THEN "declining"
             ELSE "stable"

RECURSIVE Flatten(_)
Flatten(ss) == IF ss = <<>> THEN <<>> ELSE Head(ss) \o Flatten(Tail(ss))

\* the keys of keywordMap in insertion order
RECURSIVE Distinct(_)
Distinct(ws) ==
    IF ws = <<>> THEN <<>>
    ELSE LET front == Distinct(SubSeq(ws, 1, Len(ws) - 1))
             w == ws[Len(ws)]
         IN  IF \E i \in 1..Len(front) : front[i] = w THEN front
             ELSE Append(front, w)

Count(ws, w) == Cardinality({i \in 1..Len(ws) : ws[i] = w})

RECURSIVE InsertByCount(_, _, _)
InsertByCount(sorted, w, ws) ==
    IF sorted = <<>> THEN <<w>>
    ELSE IF Count(ws, sorted[Len(sorted)]) >= Count(ws, w) THEN Append(sorted, w)
    ELSE Append(InsertByCount(SubSeq(sorted, 1, Len(sorted) - 1), w, ws),
                sorted[Len(sorted)])

RECURSIVE SortByCountFrom(_, _, _, _)
SortByCountFrom(keys, i, sorted, ws) ==
    IF i > Len(keys) THEN sorted
    ELSE SortByCountFrom(keys, i + 1, InsertByCount(sorted, keys[i], ws), ws)

\* Object.entries(keywordMap).sort((a, b) => b[1] - a[1]).slice(0, 3)
TopKeywords(sentimentData) ==
    LET ws == Flatten([i \in 1..Len(sentimentData) |-> sentimentData[i].keywords])
        ranked == SortByCountFrom(Distinct(ws), 1, <<>>, ws)
    IN  SubSeq(ranked, 1, Min(3, Len(ranked)))

Insight(text) == [text |-> text, topics |-> <<>>]

SentimentDefault(text) ==
    [overallSentiment |-> [n |-> 50, d |-> 1],
     trend |-> "stable",
     keyInsights |-> <<Insight(text)>>]

\* the summary of the date-ordered qualifying points
SentimentSummary(sentimentData) ==
    LET total == SentimentSum(sentimentData)
        n == Len(sentimentData)
        trend == Trend(sentimentData)
        level == IF total > 70 * n
                 THEN "Document shows strongly positive sentiment"
                 ELSE IF total > 55 * n
                 THEN "Document shows moderately positive sentiment"
                 ELSE IF total < 35 * n
                 THEN "Document shows negative sentiment - exercise caution"
                 ELSE "Document shows neutral sentiment"
        trendInsight ==
            IF trend = "improving"
            THEN <<Insight("Sentiment is improving throughout the document")>>
            ELSE IF trend = "declining"
            THEN <<Insight("Sentiment is declining throughout the document")>>
            ELSE <<>>
        topKeywords == TopKeywords(sentimentData)
        topics == IF Len(topKeywords) > 0
                  THEN <<[text |-> "Key topics", topics |-> topKeywords]>>
                  ELSE <<>>
    IN  [overallSentiment |-> [n |-> total, d |-> n],
         trend |-> trend,
         keyInsights |-> <<Insight(level)>> \o trendInsight \o topics]

analyzeSentiment(data) ==
    IF data.kind = "null" \/ (data.kind = "array" /\ Len(data.items) = 0)
    THEN [threw |-> FALSE, dataAfter |-> data, calls |-> {},
          value |-> SentimentDefault("Insufficient sentiment data for analysis")]
    ELSE IF data.kind = "nonarray" \/ SomeThrows(data.items)
    THEN \* data.some is not a function, or d.sentiment of null: before the try
         [threw |-> TRUE, dataAfter |-> data, calls |-> {}, value |-> <<>>]
    ELSE IF ~\E i \in 1..Len(data.items) : HasSentiment(data.items[i])
    THEN [threw |-> FALSE, dataAfter |-> data, calls |-> {},
          value |-> SentimentDefault("Insufficient sentiment data for analysis")]
    ELSE IF \E i \in 1..Len(data.items) : data.items[i].kind = "null"
    THEN \* filter reads d.sentiment of null inside the try: caught
         [threw |-> FALSE, dataAfter |-> data, calls |-> {},
          value |-> SentimentDefault("Error occurred during sentiment analysis")]
    ELSE LET sentimentData ==
                 ArraySortByDate(FilterHasSentiment(data.items))
         IN  [threw |-> FALSE,
              dataAfter |-> IF sentimentData.fresh THEN data
                            ELSE Array(sentimentData.items),
              calls |-> {},
              value |-> IF Len(sentimentData.items) = 0
                        THEN SentimentDefault("No valid sentiment data found")
                        ELSE SentimentSummary(sentimentData.items)]

-----------------------------------------------------------------------------
(* utils/dataHelpers.ts: the sanitizer *)

\* a placeholder without a close
PlaceholderNoClose == Point(Today, Undef, Undef, Undef)

\* { date: today, close: 0 }
Placeholder == Point(Today, Num(0), Undef, Undef)

\* newItem = item: the same object, not a copy
ObjectAlias(item) ==
    [fresh |-> FALSE,
     obj |-> [item EXCEPT !.kind = "obj",
                          !.date = IF item.date # 0 THEN item.date ELSE Today]]

\* { ...item, date: item.date || today }: a new object
ObjectSpread(item) ==
    [fresh |-> TRUE,
     obj |-> [item EXCEPT !.kind = "obj",
                          !.date = IF item.date # 0 THEN item.date ELSE Today]]

\* the map callback: the element returned, and the input element afterwards
EnsureValidItem(item) ==
    IF ~Truthy(item) THEN [out |-> Placeholder, inputAfter |-> item]
    ELSE
    LET newItem == ObjectSpread(item)
        o1 == IF IsUndefined(newItem.obj.close)
                 /\ ~IsUndefined(newItem.obj.sentiment)
              THEN [newItem.obj EXCEPT !.close = newItem.obj.sentiment]
              ELSE newItem.obj
        o2 == IF IsUndefined(o1.close) THEN [o1 EXCEPT !.close = Num(0)]
              ELSE o1
    IN  [out |-> o2, inputAfter |-> IF newItem.fresh THEN item ELSE o2]

\* the earlier sanitizer: no test of the array, of the entries or of the date
ensureValidDataEarlier(data) ==
    IF data.kind # "array"
       \/ \E i \in 1..Len(data.items) : data.items[i].kind = "null"
    THEN [threw |-> TRUE, value |-> <<>>, dataAfter |-> data, calls |-> {}]
    ELSE [threw |-> FALSE,
          value |-> [i \in 1..Len(data.items) |->
                        LET item == data.items[i]
                        IN  IF IsUndefined(item.close)
                               /\ ~IsUndefined(item.sentiment)
                            THEN [item EXCEPT !.kind = "obj",
                                              !.close = item.sentiment]
                            ELSE IF IsUndefined(item.close)
                            THEN [item EXCEPT !.kind = "obj", !.close = Num(0)]
                            ELSE item],
          dataAfter |-> data,
          calls |-> {}]

ensureValidData(data) ==
    IF data.kind # "array"
    THEN [threw |-> FALSE, value |-> <<>>, dataAfter |-> data, calls |-> {}]
    ELSE [threw |-> FALSE,
          value |-> [i \in 1..Len(data.items) |->
                        EnsureValidItem(data.items[i]).out],
          dataAfter |->
              Array([i \in 1..Len(data.items) |->
                        EnsureValidItem(data.items[i]).inputAfter]),
          calls |-> {}]

-----------------------------------------------------------------------------
(* The inputs the caller passes *)

MaxTail == 2
MaxRaw == 2
MaxNumbers == 4
MaxDoc == 3
MaxFiles == 2
MaxRuns == 2
MaxDatasets == 1

BoundedSeqs(S, n) == UNION {[1..k -> S] : k \in 0..n}

\* observations dated by their position
Dated(items) ==
    [i \in DOMAIN items |->
        IF items[i].kind = "obj" THEN [items[i] EXCEPT !.date = i]
        ELSE items[i]]

Run(close, n) == [i \in 1..n |-> Point(i, Num(close), Undef, Num(500000))]

\* the fundamentals of the end-to-end scenarios
ScenarioFundamentals ==
    Fundamentals(Num(16800), Num(4200), Num(150), Num(450), Num(2100),
                 Num(1700), Num(140), Num(25))

\* the dashboard's built-in default
DefaultFundamentals ==
    Fundamentals(Num(18500), Num(3750), Num(140), Num(650), Num(1800),
                 Num(1200), Num(120), Num(30))

WeakFundamentals ==
    Fundamentals(Num(40000), Num(1000), Num(20), Num(1600), Num(800),
                 Num(500), Num(-100), Num(0))

StrongFundamentals ==
    Fundamentals(Num(8000), Num(12000), Num(250), Num(200), Num(2100),
                 Num(1700), Num(250), Num(60))

\* a truthy value without the fields, and a record with a null field
MalformedFundamentals ==
    Fundamentals(Undef, Undef, Undef, Undef, Undef, Undef, Undef, Undef)

PartialFundamentals ==
    Fundamentals(Null, Num(4200), Str, Null, Num(2100), Undef, Num(140),
                 Num(45))

ScoreInputs ==
    {Fundamentals(pe, eps, roe, de, cr, qr, pm, dy) :
        pe \in {Num(8000), Num(12000), Num(16800), Num(40000), Num(60000),
                Num(10000000)},
        eps \in {Num(4200), Num(12000)},
        roe \in {Num(20), Num(120), Num(180), Num(250)},
        de \in {Num(200), Num(450), Num(1100), Num(1600)},
        cr \in {Num(800), Num(1800), Num(2100)},
        qr \in {Num(500), Num(1200), Num(1700)},
        pm \in {Num(-100), Num(20), Num(140), Num(250)},
        dy \in {Num(0), Num(25), Num(60)}}
    \cup {ScenarioFundamentals, DefaultFundamentals, WeakFundamentals,
          StrongFundamentals, MalformedFundamentals, PartialFundamentals}

RecommendationFundamentals ==
    {Fundamentals(pe, Num(4200), roe, de, Num(2100), Num(1700), Num(140), dy) :
        pe \in {Num(-5000), Num(12000), Num(40000)},
        roe \in {Num(20), Num(250)},
        de \in {Num(450), Num(1300)},
        dy \in {Num(25), Num(60)}}
    \cup {ScenarioFundamentals, DefaultFundamentals, WeakFundamentals,
          StrongFundamentals, MalformedFundamentals, PartialFundamentals,
          NoFundamentals}

\* closes whose price change against the runs is no whole percentage, so that
\* the composite score never lands exactly on a threshold, where the rounding
\* of the doubles decides and the exact arithmetic here does not follow it
TailPoints ==
    {Point(0, c, Undef, Num(500000)) :
        c \in {Undef, Num(0), Num(1), Num(4666), Num(5333), Num(12345)}}
    \cup {NonObject("null")}

\* a run of equal closes followed by a free tail
RecommendationData ==
    {Array(Dated(Run(c, n) \o tail)) :
        c \in {5000, 10000}, n \in {0, 13, 19},
        tail \in BoundedSeqs(TailPoints, MaxTail)}
    \cup {NullData, NonArrayData}

\* 31 closes rising from 100 to 130: a constant slope and two jumps
Rising(slope, a, b, j) ==
    Array([i \in 1..31 |->
        Point(i,
              Num(10000 + slope * (i - 1)
                  + (IF i > a THEN j ELSE 0)
                  + (IF i > b THEN (3000 - 30 * slope) - j ELSE 0)),
              Undef, Num(500000))])

RisingData ==
    {Rising(slope, a, b, j) :
        slope \in {0, 1}, a \in 1..30, b \in 1..30,
        j \in {0, 500, 1100, 1485, 2900}}
    \cup {Rising(100, 1, 1, 0)}

\* 10 points, all with close = 50
FlatData == Array(Run(5000, 10))

RawEntries ==
    {Point(d, c, s, Undef) :
        d \in {0, 3},
        c \in {Undef, Null, Str, Num(0), Num(5000)},
        s \in {Undef, Str, Num(61)}}
    \cup {NonObject("null"), NonObject("prim")}

RawData ==
    {Array(items) : items \in BoundedSeqs(RawEntries, MaxRaw)}
    \cup {NullData, NonArrayData}

\* small prices, with and without volume
IndicatorPoints ==
    {Point(0, c, Undef, Num(500)) : c \in {Undef, Num(0), Num(100), Num(300)}}
    \cup {Point(0, Num(200), Undef, Undef), NonObject("null")}

IndicatorData ==
    {Array(Dated([i \in 1..n |-> Point(i, Num(c), Undef, Num(1000))] \o tail)) :
        c \in {100, 300}, n \in {0, 13, 19, 27, 36},
        tail \in BoundedSeqs(IndicatorPoints, MaxTail)}
    \cup {NullData, NonArrayData}

NumberData == BoundedSeqs({Num(0), Num(100), Num(250), NaN}, MaxNumbers)

DocPoints ==
    {DocPoint(d, s, k) :
        d \in {1, 2, 3}, s \in {Undef, Num(20), Num(90)},
        k \in {<<>>, <<"growth">>}}
    \cup {DocPoint(2, Null, <<"risk", "growth">>), NonObject("null")}

DocData ==
    {Array(items) : items \in BoundedSeqs(DocPoints, MaxDoc)}
    \cup {NullData, NonArrayData}

\* the five sentiments 0.2, 0.3, 0.8, 0.85, 0.9 dated 1..5, in every order
\* of the array
ScenarioSentiments == <<20, 30, 80, 85, 90>>

ScenarioDocData ==
    {Array([i \in 1..5 |-> DocPoint(f[i], Num(ScenarioSentiments[f[i]]), <<>>)]) :
        f \in {g \in [1..5 -> 1..5] : \A i, j \in 1..5 : g[i] = g[j] => i = j}}

\* what the dashboard is given: two flat closes, a rise of 30 % on a growing
\* volume, two documents whose close is their sentiment
DashboardData ==
    {Run(5000, 2),
     <<Point(1, Num(10000), Undef, Num(500000)),
       Point(2, Num(13000), Undef, Num(1800000))>>,
     <<[DocPoint(1, Num(20), <<"growth">>) EXCEPT !.close = Num(20)],
       [DocPoint(2, Num(90), <<>>) EXCEPT !.close = Num(90)]>>}

StockDataInputs ==
    {[id |-> 1, dataType |-> t, fundamentalData |-> fd, data |-> d] :
        t \in {"marketData", "documentAnalysis", "undefined"},
        fd \in {NoFundamentals, ScenarioFundamentals, StrongFundamentals,
                WeakFundamentals, PartialFundamentals},
        d \in DashboardData}

NoParams == [period |-> 0, stdDev |-> 0, priceLevels |-> 0]
Period(n) == [period |-> n, stdDev |-> 0, priceLevels |-> 0]

-----------------------------------------------------------------------------
(* components/dashboard/UploadSection.tsx.  The state hooks are the         *)
(* variables; a handler with the renders it causes is one step.  A timer    *)
(* keeps the closure of the render that created it.  isDragging, which only *)
(* styles the drop zone, is left out.                                       *)

NoFile == [id |-> 0, ext |-> ""]

\* the file name's extension, lower-cased
Extensions == {"csv", "xlsx", "pdf", "txt", "json", "exe"}

supportedFormats == {"csv", "xlsx", "xls", "pdf", "doc", "docx", "txt", "json"}

\* the useState initial values; no timer runs
UploadSectionMounted ==
    /\ file = NoFile
    /\ isUploading = FALSE
    /\ uploadProgress = 0
    /\ isUploaded = FALSE
    /\ dataType = "market"
    /\ intervals = {}
    /\ timeouts = {}
    /\ uploaded = <<>>
    /\ chosen = 0
    /\ removed = {}

\* the toggle buttons, rendered while no file is shown
SetDataType(t) ==
    /\ file = NoFile
    /\ dataType' = t
    /\ UNCHANGED <<file, isUploading, uploadProgress, isUploaded, intervals,
                   timeouts, uploaded, chosen, removed, toast>>
    /\ UNCHANGED <<engineVars, dashboardVars>>

\* handleFile of a file with an unsupported extension
HandleUnsupportedFile(ext) ==
    /\ file = NoFile
    /\ chosen < MaxFiles
    /\ ext \notin supportedFormats
    /\ chosen' = chosen + 1
    /\ toast' = "Unsupported file format"
    /\ UNCHANGED <<file, isUploading, uploadProgress, isUploaded, dataType,
                   intervals, timeouts, uploaded, removed>>
    /\ UNCHANGED <<engineVars, dashboardVars>>

\* handleFile (drop or file input, rendered while no file is shown): the
\* interval's callback closes over this render's processFile, and that over
\* this render's dataType
HandleFile(ext) ==
    /\ file = NoFile
    /\ chosen < MaxFiles
    /\ ext \in supportedFormats
    /\ LET f == [id |-> chosen + 1, ext |-> ext]
       IN  /\ dataType' = IF ext \in {"csv", "xlsx", "xls"} THEN "market"
                          ELSE "document"
           /\ file' = f
           /\ isUploading' = TRUE
           /\ uploadProgress' = 0
           /\ intervals' = intervals \cup {[file |-> f, dataType |-> dataType]}
    /\ chosen' = chosen + 1
    /\ UNCHANGED <<isUploaded, timeouts, uploaded, removed, toast>>
    /\ UNCHANGED <<engineVars, dashboardVars>>

\* one run of the interval callback: setUploadProgress(prev => ...), and at
\* 100 clearInterval and processFile, which starts the processing timeout
ProgressTick(interval) ==
    /\ interval \in intervals
    /\ LET newProgress == uploadProgress + 10
       IN  IF newProgress >= 100
           THEN /\ uploadProgress' = 100
                /\ intervals' = intervals \ {interval}
                /\ timeouts' = timeouts \cup {interval}
           ELSE /\ uploadProgress' = newProgress
                /\ UNCHANGED <<intervals, timeouts>>
    /\ UNCHANGED <<file, isUploading, isUploaded, dataType, uploaded, chosen,
                   removed, toast>>
    /\ UNCHANGED <<engineVars, dashboardVars>>

\* the dataType field of the mock dataset that processFile builds
DatasetType(fileType, selectedDataType) ==
    IF selectedDataType = "market"
       \/ fileType \in {"csv", "xlsx", "xls", "json"}
    THEN "marketData"
    ELSE "documentAnalysis"

\* the processing timeout's callback
ProcessingTimeout(timeout) ==
    /\ timeout \in timeouts
    /\ timeouts' = timeouts \ {timeout}
    /\ isUploading' = FALSE
    /\ isUploaded' = TRUE
    /\ uploaded' = Append(uploaded,
                          [file |-> timeout.file,
                           dataType |-> DatasetType(timeout.file.ext,
                                                    timeout.dataType)])
    /\ toast' = "Analysis completed successfully"
    /\ UNCHANGED <<file, uploadProgress, dataType, intervals, chosen, removed>>
    /\ UNCHANGED <<engineVars, dashboardVars>>

\* an interval or a processing timeout of the file is pending
UploadPending(f) ==
    \/ \E interval \in intervals : interval.file = f
    \/ \E timeout \in timeouts : timeout.file = f

\* the X button, rendered while a file is shown
HandleRemoveFile ==
    /\ file # NoFile
    /\ file' = NoFile
    /\ isUploaded' = FALSE
    /\ isUploading' = FALSE
    /\ uploadProgress' = 0
    /\ removed' = IF UploadPending(file) THEN removed \cup {file} ELSE removed
    /\ UNCHANGED <<dataType, intervals, timeouts, uploaded, chosen, toast>>
    /\ UNCHANGED <<engineVars, dashboardVars>>

-----------------------------------------------------------------------------
(* components/dashboard/AnalysisDashboard.tsx, mounted with a non-empty     *)
(* stockData.data.  A step is a handler together with the render and the    *)
(* effect run it causes.                                                    *)

NoStockData ==
    [id |-> 0, dataType |-> "undefined", fundamentalData |-> NoFundamentals,
     data |-> <<>>]

NoDeps == [stockData |-> 0, hasMarketData |-> FALSE, fundamentalData |-> 0]

DashboardUnmounted ==
    /\ stockData = NoStockData
    /\ analysisComplete = FALSE
    /\ insights = <<>>
    /\ deps = NoDeps
    /\ timer = FALSE
    /\ generated = 0

\* stockData.dataType !== 'documentAnalysis'
HasMarketData(sd) == sd.dataType # "documentAnalysis"

\* stockData.fundamentalData || { pe: 18.5, ... }
FundamentalDataOf(sd) ==
    IF sd.fundamentalData.kind = "null" THEN DefaultFundamentals
    ELSE sd.fundamentalData

\* the dependency array [stockData, hasMarketData, fundamentalData] of a
\* render: objects by identity, the identity of fundamentalData being that of
\* the prop's record (its id) or, without one, of the literal (0)
DepsOf(sd) ==
    [stockData |-> sd.id,
     hasMarketData |-> HasMarketData(sd),
     fundamentalData |-> IF sd.fundamentalData.kind = "null" THEN 0
                         ELSE sd.id]

\* some dependency differs from the previous effect run by Object.is; the
\* object literal is a new object in every render
DepsChanged(prev, sd) ==
    \/ prev.stockData # sd.id
    \/ prev.hasMarketData # HasMarketData(sd)
    \/ sd.fundamentalData.kind = "null"
    \/ prev.fundamentalData # sd.id

\* prices.length > 0 branch: the price and the volume insights
MarketInsights(data) ==
    LET prices == SelectSeq([i \in DOMAIN data |-> NumberOf(data[i].close)],
                            LAMBDA x : x > 0)
        volumes == SelectSeq([i \in DOMAIN data |-> NumberOf(data[i].volume)],
                             LAMBDA v : v > 0)
        n == Len(prices)
        sum == SumSeq(prices)
        spread == SeqMax(prices) - SeqMin(prices)
        vn == Len(volumes)
        vsum == SumSeq(volumes)
    IN  IF n = 0 THEN <<>>
        ELSE (IF prices[n] * n > sum THEN <<"Current price is above the average">>
              ELSE <<"Current price is below the average">>)
             \o (IF 100 * spread * n > 20 * sum
                 THEN <<"High price volatility">>
                 ELSE IF 100 * spread * n < 5 * sum
                 THEN <<"Low price volatility">>
                 ELSE <<>>)
             \o (IF vn = 0 THEN <<>>
                 ELSE IF 2 * volumes[vn] * vn > 3 * vsum
                 THEN <<"Recent volume is significantly higher">>
                 ELSE IF 2 * volumes[vn] * vn < vsum
                 THEN <<"Recent volume is significantly lower">>
                 ELSE <<>>)

\* sentiments.length > 0 branch: the sentiment and the keyword insights
DocumentInsights(data) ==
    LET sentiments == SelectSeq([i \in DOMAIN data |->
                                    NumberOf(data[i].sentiment)],
                                LAMBDA x : x > 0)
        n == Len(sentiments)
        sum == SumSeq(sentiments)
    IN  IF n = 0 THEN <<>>
        ELSE (IF sum > 70 * n THEN <<"strong positive sentiment">>
              ELSE IF sum < 40 * n THEN <<"cautious or negative sentiment">>
              ELSE <<"balanced sentiment">>)
             \o (IF TopKeywords(data) # <<>>
                 THEN <<"Frequently mentioned topics">>
                 ELSE <<>>)

\* the fundamental insights; threw when pe.toFixed is called on a value that
\* is no number
FundamentalInsights(fd) ==
    LET peInsight ==
            IF JsLt(fd.pe, 15000) THEN <<"may be undervalued">>
            ELSE IF JsGt(fd.pe, 25000) THEN <<"may be overvalued">>
            ELSE <<>>
        dyInsight ==
            IF JsGt(fd.dividendYield, 30)
            THEN <<"Dividend yield is above average">>
            ELSE <<>>
    IN  IF peInsight # <<>> /\ ~IsNumber(fd.pe)
        THEN [threw |-> TRUE, value |-> <<>>]
        ELSE [threw |-> FALSE, value |-> peInsight \o dyInsight]

\* generateInsights of the render whose effect set the timer
generateInsights(sd) ==
    LET first == IF HasMarketData(sd) THEN MarketInsights(sd.data)
                 ELSE DocumentInsights(sd.data)
        second == FundamentalInsights(FundamentalDataOf(sd))
        generatedInsights ==
            IF second.threw
            THEN Append(first, "Insights generation encountered an error")
            ELSE first \o second.value
    IN  IF generatedInsights = <<>> THEN <<"Analysis complete">>
        ELSE generatedInsights

\* the timer's callback with the render that setInsights causes (the array is
\* a new one every time) and that render's effect run
TimerFires ==
    /\ timer
    /\ generated < MaxRuns
    /\ insights' = generateInsights(stockData)
    /\ analysisComplete' = TRUE
    /\ toast' = "Insights generated successfully"
    /\ generated' = generated + 1
    /\ IF DepsChanged(deps, stockData)
       THEN \* cleanup, then a new setTimeout
            /\ timer' = TRUE
            /\ deps' = DepsOf(stockData)
       ELSE /\ timer' = FALSE
            /\ UNCHANGED deps
    /\ UNCHANGED stockData
    /\ UNCHANGED <<engineVars, uploadVars>>

\* the parent passes another stockData: render, cleanup of the pending timer
\* and a new setTimeout
ReceiveStockData(sd) ==
    /\ stockData # NoStockData
    /\ stockData.id < 1 + MaxDatasets
    /\ stockData' = [sd EXCEPT !.id = stockData.id + 1]
    /\ generated' = 0
    /\ timer' = TRUE
    /\ deps' = DepsOf(stockData')
    /\ UNCHANGED <<analysisComplete, insights, toast>>
    /\ UNCHANGED <<engineVars, uploadVars>>

-----------------------------------------------------------------------------
(* The caller: one call of an engine operation on the inputs *)

NoResult == <<>>

InitScores ==
    /\ op = "calculateFundamentalScores"
    /\ fundamentalData \in ScoreInputs
    /\ technicalData = Array(<<>>)
    /\ numbers = <<>>
    /\ params = NoParams

InitRecommendation ==
    /\ op = "generateRecommendation"
    /\ \/ /\ technicalData \in RecommendationData \cup {FlatData}
          /\ fundamentalData \in RecommendationFundamentals
       \/ /\ technicalData \in RisingData
          /\ fundamentalData = ScenarioFundamentals
    /\ numbers = <<>>
    /\ params = NoParams

InitSanitizer ==
    /\ op = "ensureValidData"
    /\ technicalData \in RawData
    /\ fundamentalData = NoFundamentals
    /\ numbers = <<>>
    /\ params = NoParams

InitIndicator ==
    /\ technicalData \in IndicatorData
    /\ fundamentalData = NoFundamentals
    /\ numbers = <<>>
    /\ \/ op = "calculateSMA" /\ params \in {Period(n) : n \in {1, 2, 3, 20}}
       \/ op = "calculateRSI" /\ params \in {Period(n) : n \in {2, RsiPeriod}}
       \/ op = "calculateMACD" /\ params = NoParams
       \/ /\ op = "calculateBollingerBands"
          /\ params \in {[period |-> n, stdDev |-> k, priceLevels |-> 0] :
                            n \in {2, BollingerPeriod},
                            k \in {0, 1, BollingerStdDev}}
       \/ /\ op = "calculateVolumeProfile"
          /\ params \in {[period |-> 0, stdDev |-> 0, priceLevels |-> n] :
                            n \in {1, 2, PriceLevels}}

InitEMA ==
    /\ op = "calculateEMA"
    /\ numbers \in NumberData
    /\ params \in {Period(n) : n \in {1, 2, 3, 9}}
    /\ technicalData = Array(<<>>)
    /\ fundamentalData = NoFundamentals

InitSentiment ==
    /\ op = "analyzeSentiment"
    /\ technicalData \in DocData \cup ScenarioDocData
    /\ fundamentalData = NoFundamentals
    /\ numbers = <<>>
    /\ params = NoParams

NotValidated == [done |-> FALSE, items |-> <<>>]

\* the components at rest
ComponentsIdle ==
    /\ UploadSectionMounted
    /\ DashboardUnmounted
    /\ toast = ""

Init ==
    /\ pc = "ready"
    /\ ret = NoResult
    /\ calls = {}
    /\ validatedStockData = NotValidated
    /\ ComponentsIdle
    /\ \/ InitScores
       \/ InitRecommendation
       \/ InitSanitizer
       \/ InitIndicator
       \/ InitEMA
       \/ InitSentiment

Return(r) ==
    /\ pc' = IF r.threw THEN "thrown" ELSE "returned"
    /\ ret' = r.value
    /\ calls' = r.calls

CallFundamentalScores ==
    /\ pc = "ready"
    /\ op = "calculateFundamentalScores"
    /\ Return([threw |-> FALSE,
               value |-> calculateFundamentalScores(fundamentalData),
               calls |-> {}])
    /\ UNCHANGED <<technicalData, fundamentalData, op, numbers, params,
                 validatedStockData, componentVars>>

CallGenerateRecommendation ==
    /\ pc = "ready"
    /\ op = "generateRecommendation"
    /\ Return(generateRecommendation(technicalData, fundamentalData))
    /\ UNCHANGED <<technicalData, fundamentalData, op, numbers, params,
                 validatedStockData, componentVars>>

CallEnsureValidData ==
    /\ pc = "ready"
    /\ op = "ensureValidData"
    /\ LET r == ensureValidData(technicalData)
       IN  /\ Return(r)
           /\ technicalData' = r.dataAfter
    /\ UNCHANGED <<fundamentalData, op, numbers, params, validatedStockData,
                 componentVars>>

\* the dashboard's ensureValidData(stockData.data) on the sequence that the
\* upload's ensureValidData returned
CallEnsureValidDataAgain ==
    /\ pc = "returned"
    /\ op = "ensureValidData"
    /\ ~validatedStockData.done
    /\ validatedStockData' =
           [done |-> TRUE, items |-> ensureValidData(Array(ret)).value]
    /\ UNCHANGED <<technicalData, fundamentalData, pc, op, numbers, params,
                   ret, calls, componentVars>>

CallAnalyzeSentiment ==
    /\ pc = "ready"
    /\ op = "analyzeSentiment"
    /\ LET r == analyzeSentiment(technicalData)
       IN  /\ Return(r)
           /\ technicalData' = r.dataAfter
    /\ UNCHANGED <<fundamentalData, op, numbers, params, validatedStockData,
                 componentVars>>

CallSMA ==
    /\ pc = "ready"
    /\ op = "calculateSMA"
    /\ Return([threw |-> FALSE,
               value |-> calculateSMA(technicalData, params.period),
               calls |-> {}])
    /\ UNCHANGED <<technicalData, fundamentalData, op, numbers, params,
                 validatedStockData, componentVars>>

CallEMA ==
    /\ pc = "ready"
    /\ op = "calculateEMA"
    /\ Return([threw |-> FALSE,
               value |-> calculateEMA(numbers, params.period),
               calls |-> {}])
    /\ UNCHANGED <<technicalData, fundamentalData, op, numbers, params,
                 validatedStockData, componentVars>>

CallRSI ==
    /\ pc = "ready"
    /\ op = "calculateRSI"
    /\ Return([threw |-> FALSE,
               value |-> calculateRSI(technicalData, params.period),
               calls |-> {}])
    /\ UNCHANGED <<technicalData, fundamentalData, op, numbers, params,
                 validatedStockData, componentVars>>

CallMACD ==
    /\ pc = "ready"
    /\ op = "calculateMACD"
    /\ Return(calculateMACD(technicalData))
    /\ UNCHANGED <<technicalData, fundamentalData, op, numbers, params,
                 validatedStockData, componentVars>>

CallBollingerBands ==
    /\ pc = "ready"
    /\ op = "calculateBollingerBands"
    /\ Return(calculateBollingerBands(technicalData, params.period,
                                      params.stdDev))
    /\ UNCHANGED <<technicalData, fundamentalData, op, numbers, params,
                 validatedStockData, componentVars>>

CallVolumeProfile ==
    /\ pc = "ready"
    /\ op = "calculateVolumeProfile"
    /\ Return(calculateVolumeProfile(technicalData, params.priceLevels))
    /\ UNCHANGED <<technicalData, fundamentalData, op, numbers, params,
                 validatedStockData, componentVars>>

Next ==
    \/ CallFundamentalScores
    \/ CallGenerateRecommendation
    \/ CallEnsureValidData
    \/ CallEnsureValidDataAgain
    \/ CallAnalyzeSentiment
    \/ CallSMA
    \/ CallEMA
    \/ CallRSI
    \/ CallMACD
    \/ CallBollingerBands
    \/ CallVolumeProfile

Spec == Init /\ [][Next]_vars

-----------------------------------------------------------------------------
(* The upload component on its own: the user's clicks and drops, and the    *)
(* timers                                                                    *)

EngineIdle ==
    /\ technicalData = Array(<<>>)
    /\ fundamentalData = NoFundamentals
    /\ pc = "idle"
    /\ op = "none"
    /\ numbers = <<>>
    /\ params = NoParams
    /\ ret = NoResult
    /\ calls = {}
    /\ validatedStockData = NotValidated

InitUpload ==
    /\ EngineIdle
    /\ UploadSectionMounted
    /\ DashboardUnmounted
    /\ toast = ""

NextUpload ==
    \/ \E t \in {"market", "document"} : SetDataType(t)
    \/ \E ext \in Extensions : HandleUnsupportedFile(ext)
    \/ \E ext \in Extensions : HandleFile(ext)
    \/ \E interval \in intervals : ProgressTick(interval)
    \/ \E timeout \in timeouts : ProcessingTimeout(timeout)
    \/ HandleRemoveFile

SpecUpload == InitUpload /\ [][NextUpload]_vars

-----------------------------------------------------------------------------
(* The dashboard on its own, from its first render and effect run           *)

InitDashboard ==
    /\ EngineIdle
    /\ UploadSectionMounted
    /\ stockData \in StockDataInputs
    /\ analysisComplete = FALSE
    /\ insights = <<>>
    /\ deps = DepsOf(stockData)
    /\ timer = TRUE
    /\ generated = 0
    /\ toast = ""

NextDashboard ==
    \/ TimerFires
    \/ \E sd \in StockDataInputs : ReceiveStockData(sd)

SpecDashboard == InitDashboard /\ [][NextDashboard]_vars

-----------------------------------------------------------------------------
(* Properties *)

Returned(o) == op = o /\ pc = "returned"
Finished(o) == op = o /\ pc # "ready"

Recommendations == {"STRONG BUY", "BUY", "HOLD", "SELL", "STRONG SELL"}

\* C1: whatever the observation sequence and the fundamentals record are
\* (empty, missing and malformed ones included), the record that
\* generateRecommendation returns has a confidence in [0.3, 0.9] and one of
\* the five recommendations.
C1_ConfidenceAndRecommendationInRange ==
    Returned("generateRecommendation") =>
        /\ ret.confidence >= 30
        /\ ret.confidence <= 90
        /\ ret.recommendation \in Recommendations

\* the normal path with the adjustments summing to 0.2, clamped to 0.3
C1_Witness ==
    /\ Returned("generateRecommendation")
    /\ ret.confidence = 30
    /\ ret.positivePoints = <<>>
    /\ Len(ret.negativePoints) = 4
    /\ "Sharp recent decline" \in {ret.negativePoints[i] : i \in 1..4}

\* C2: a missing or empty sequence, or missing fundamentals, gives exactly
\* HOLD, confidence 0.5, no positive point, the single negative point
\* 'Insufficient data for analysis' and the fixed summary, with no indicator
\* computed and nothing thrown.
C2_InsufficientData ==
    ( /\ Finished("generateRecommendation")
      /\ \/ technicalData.kind = "null"
         \/ (technicalData.kind = "array" /\ technicalData.items = <<>>)
         \/ fundamentalData.kind = "null" )
    => /\ pc = "returned"
       /\ ret.recommendation = "HOLD"
       /\ ret.confidence = 50
       /\ ret.positivePoints = <<>>
       /\ ret.negativePoints = <<"Insufficient data for analysis">>
       /\ ret.summary.text = "Unable to analyze due to insufficient data."
       /\ calls = {}

C2_Witness ==
    /\ Returned("generateRecommendation")
    /\ technicalData = Array(<<>>)
    /\ fundamentalData = ScenarioFundamentals
    /\ ret.negativePoints = <<"Insufficient data for analysis">>

\* C3: generateRecommendation never lets an exception reach its caller; a
\* failure inside the try block gives HOLD, confidence 0.5, no positive point
\* and the single negative point 'Error during analysis'.
C3_FailureBecomesFallback ==
    Finished("generateRecommendation") =>
        /\ pc = "returned"
        /\ ( /\ ~IsInsufficient(technicalData, fundamentalData)
             /\ RecommendationTry(technicalData, fundamentalData).threw )
           => /\ ret.recommendation = "HOLD"
              /\ ret.confidence = 50
              /\ ret.positivePoints = <<>>
              /\ ret.negativePoints = <<"Error during analysis">>

\* a truthy value that is no array reaches technicalData.slice
C3_Witness ==
    /\ Returned("generateRecommendation")
    /\ technicalData.kind = "nonarray"
    /\ fundamentalData.kind = "record"
    /\ ret.negativePoints = <<"Error during analysis">>

\* C4: the three sub-scores returned by calculateFundamentalScores are in
\* [0, 10] and overallScore is their arithmetic mean rounded to one decimal.
C4_ScoresInRangeAndMean ==
    Returned("calculateFundamentalScores") =>
        /\ ret.valueScore \in 0..100
        /\ ret.growthScore \in 0..100
        /\ ret.stabilityScore \in 0..100
        /\ ret.overallScore =
               RoundDiv(ret.valueScore + ret.growthScore + ret.stabilityScore, 3)

\* an extreme P/E, and a mean that needed rounding
C4_Witness ==
    /\ Returned("calculateFundamentalScores")
    /\ fundamentalData.pe = Num(10000000)
    /\ 3 * ret.overallScore
           # ret.valueScore + ret.growthScore + ret.stabilityScore

\* C5: after ensureValidData every element has a numeric close and a
\* non-empty date: a numeric close is kept, otherwise a numeric sentiment is
\* copied into close, otherwise close is 0 (a close that is present but not a
\* number included).
C5_EveryCloseNumeric ==
    (Returned("ensureValidData") /\ technicalData.kind = "array") =>
        \A i \in 1..Len(ret) :
            LET in == technicalData.items[i]
            IN  /\ IsNumber(ret[i].close)
                /\ ret[i].date # 0
                /\ ret[i].close =
                       IF IsNumber(in.close) THEN in.close
                       ELSE IF IsNumber(in.sentiment) THEN in.sentiment
                       ELSE Num(0)

C7_InputsUnchanged ==
    [][/\ technicalData' = technicalData
       /\ fundamentalData' = fundamentalData
       /\ numbers' = numbers]_vars

\* analyzeSentiment has returned a trend for qualifying points that were
\* passed out of date order (its sort moved them)
C7_Witness ==
    /\ Returned("analyzeSentiment")
    /\ Len(technicalData.items) = 3
    /\ \A i \in 1..3 : HasSentiment(technicalData.items[i])
    /\ technicalData.items[1].date > technicalData.items[2].date
    /\ ret.trend = "improving"

\* 31 numeric closes that rise from 100 to 130
IsRisingScenario(td) ==
    /\ td.kind = "array"
    /\ Len(td.items) = 31
    /\ \A i \in 1..31 : td.items[i].kind = "obj" /\ IsNumber(td.items[i].close)
    /\ td.items[1].close.v = 10000
    /\ td.items[31].close.v = 13000
    /\ \A i \in 1..30 : td.items[i].close.v <= td.items[i + 1].close.v

\* C8: for 31 daily closes rising from 100 to 130 and the scenario
\* fundamentals, generateRecommendation returns BUY or STRONG BUY with a
\* confidence above 0.5.
C8_RisingScenarioBuys ==
    ( /\ Returned("generateRecommendation")
      /\ IsRisingScenario(technicalData)
      /\ fundamentalData = ScenarioFundamentals )
    => /\ ret.recommendation \in {"BUY", "STRONG BUY"}
       /\ ret.confidence > 50

\* the linear rise 100, 101, ..., 130
C8_Witness ==
    /\ Returned("generateRecommendation")
    /\ technicalData = Rising(100, 1, 1, 0)
    /\ fundamentalData = ScenarioFundamentals
    /\ ret.recommendation = "BUY"
    /\ ret.confidence = 65

\* C9 as stated: the scenario fundamentals give an overallScore between 6.2
\* and 6.7.
C9_Original ==
    ( /\ Returned("calculateFundamentalScores")
      /\ fundamentalData = ScenarioFundamentals )
    => ret.overallScore \in 62..67

\* C9: the scenario fundamentals give valueScore 5.5, growthScore 7,
\* stabilityScore 9 and overallScore 7.2.
C9_ScenarioScores ==
    ( /\ Returned("calculateFundamentalScores")
      /\ fundamentalData = ScenarioFundamentals )
    => /\ ret.valueScore = 55
       /\ ret.growthScore = 70
       /\ ret.stabilityScore = 90
       /\ ret.overallScore = 72

C9_Witness ==
    /\ Returned("calculateFundamentalScores")
    /\ fundamentalData = ScenarioFundamentals
    /\ ret.overallScore = 72

\* 10 points, all with close = 50
IsFlatScenario(td) ==
    /\ td.kind = "array"
    /\ Len(td.items) = 10
    /\ \A i \in 1..10 : td.items[i].kind = "obj" /\ td.items[i].close = Num(5000)

\* C10 as stated: for 10 flat closes of 50 and the scenario fundamentals the
\* engine computes priceChange = 0, uses RSI = 50 and returns HOLD.
C10_Original ==
    ( /\ Returned("generateRecommendation")
      /\ IsFlatScenario(technicalData)
      /\ fundamentalData = ScenarioFundamentals )
    => /\ PriceChange(RecentData(technicalData.items)).n = 0
       /\ LastRsi(calculateRSI(technicalData, RsiPeriod)) = 5000
       /\ ret.recommendation = "HOLD"

\* C10: for 10 flat closes of 50 and the scenario fundamentals the engine
\* computes priceChange = 0, uses the default RSI = 50 (the RSI series is
\* empty) and returns BUY with confidence 0.65: the composite score is
\* overallScore / 10 = 0.72, above 0.3.
C10_FlatScenarioBuys ==
    ( /\ Returned("generateRecommendation")
      /\ IsFlatScenario(technicalData)
      /\ fundamentalData = ScenarioFundamentals )
    => /\ PriceChange(RecentData(technicalData.items)).n = 0
       /\ calculateRSI(technicalData, RsiPeriod) = <<>>
       /\ LastRsi(calculateRSI(technicalData, RsiPeriod)) = 5000
       /\ ret.recommendation = "BUY"
       /\ ret.confidence = 65
       /\ ret.positivePoints =
              <<"Strong fundamental indicators", "Low debt-to-equity ratio">>
       /\ ret.negativePoints = <<>>

C10_Witness ==
    /\ Returned("generateRecommendation")
    /\ IsFlatScenario(technicalData)
    /\ fundamentalData = ScenarioFundamentals
    /\ ret.recommendation = "BUY"

\* C11: calculateMACD returns a histogram as long as the signal line, and
\* every histogram[i] is macd[i + (len(macd) - len(signal))] - signal[i],
\* rounded to 2 decimals, with both operands defined numbers: no histogram
\* entry is computed from a missing or not-a-number MACD value.
C11_HistogramFromNumbers ==
    Returned("calculateMACD") =>
        /\ Len(ret.histogram) = Len(ret.signal)
        /\ \A i \in 1..Len(ret.signal) :
            LET j == i + (Len(ret.macd) - Len(ret.signal))
            IN  /\ j \in 1..Len(ret.macd)
                /\ IsNumber(ret.macd[j])
                /\ ret.histogram[i] = Num(ret.macd[j].v - ret.signal[i])

\* C12: for a non-negative stdDev, calculateBollingerBands returns three
\* bands of equal length with upper[i] >= middle[i] >= lower[i], and
\* middle[i] is the SMA of the window that upper[i] and lower[i] were computed
\* from, also when some points have no numeric close.
C12_BandsAlignedAndOrdered ==
    ( /\ Returned("calculateBollingerBands")
      /\ technicalData.kind = "array"
      /\ params.stdDev >= 0 )
    => /\ Len(ret.upper) = Len(ret.middle)
       /\ Len(ret.lower) = Len(ret.middle)
       /\ \A i \in 1..Len(ret.middle) :
            /\ i <= Len(ret.upper) => /\ IsNumber(ret.upper[i])
                                      /\ ret.upper[i].v >= ret.middle[i]
            /\ i <= Len(ret.lower) => /\ IsNumber(ret.lower[i])
                                      /\ ret.middle[i] >= ret.lower[i].v
            \* upper[i] and lower[i] come from the window ending at
            \* position i + period - 1
            /\ LET w == SmaWindow(technicalData.items, i + params.period - 1,
                                  params.period)
               IN  /\ w.validPoints > 0
                   /\ ret.middle[i] = RoundDiv(w.sum, w.validPoints)

\* the differences of the RSI window k: changes k .. k + period - 1
RsiWindow(k) ==
    LET changes == Changes(technicalData.items)
    IN  {changes[j] : j \in k..(k + params.period - 1)}

\* C13: every value calculateRSI returns is in [0, 100]; a window of `period`
\* differences without a loss gives exactly 100, a window with a loss and
\* without a gain gives exactly 0.
C13_RsiRangeAndExtremes ==
    Returned("calculateRSI") =>
        \A k \in 1..Len(ret) :
            /\ ret[k] \in 0..10000
            /\ (\A c \in RsiWindow(k) : c >= 0) => ret[k] = 10000
            /\ ( /\ \E c \in RsiWindow(k) : c < 0
                 /\ \A c \in RsiWindow(k) : c <= 0 ) => ret[k] = 0

\* a series with a window without a loss and a window with losses only
C13_Witness ==
    /\ Returned("calculateRSI")
    /\ \E k \in 1..Len(ret) : ret[k] = 10000
    /\ \E k \in 1..Len(ret) :
        /\ ret[k] = 0
        /\ \A c \in RsiWindow(k) : c < 0

\* C14: a sequence too short for the indicator gives an empty series and no
\* error: calculateSMA for N < period, calculateRSI for N <= period; for
\* N > period calculateRSI returns exactly N - period values.
C14_ShortSequencesGiveEmptySeries ==
    /\ Finished("calculateSMA") =>
        /\ pc = "returned"
        /\ Len(technicalData.items) < params.period => ret = <<>>
    /\ Finished("calculateRSI") =>
        /\ pc = "returned"
        /\ Len(technicalData.items) <= params.period => ret = <<>>
        /\ ( /\ technicalData.kind = "array"
             /\ Len(technicalData.items) > params.period )
           => Len(ret) = Len(technicalData.items) - params.period

\* 15 points and the default period: one RSI value
C14_Witness ==
    /\ Returned("calculateRSI")
    /\ params.period = RsiPeriod
    /\ Len(technicalData.items) = RsiPeriod + 1
    /\ Len(ret) = 1

\* C15: with N source points and L SMA values, output index i is the average
\* of the window that ends at source index i + (N - L), for every input,
\* also when some windows hold no point with a numeric close.
C15_SmaAlignment ==
    ( /\ Returned("calculateSMA")
      /\ technicalData.kind = "array" )
    => \A i \in 1..Len(ret) :
          LET end == i + (Len(technicalData.items) - Len(ret))
              w == SmaWindow(technicalData.items, end, params.period)
          IN  /\ w.validPoints > 0
              /\ ret[i] = RoundDiv(w.sum, w.validPoints)

\* C16: for a missing or empty sequence, or one without an element that has
\* a defined sentiment, analyzeSentiment returns overallSentiment 0.5, trend
\* 'stable' and exactly one insight; and it raises for no input.
C16_NeutralDefaultsNeverRaises ==
    Finished("analyzeSentiment") =>
        /\ pc = "returned"
        /\ ( \/ technicalData.kind = "null"
             \/ /\ technicalData.kind = "array"
                /\ \A i \in 1..Len(technicalData.items) :
                      \/ technicalData.items[i].kind # "obj"
                      \/ IsUndefined(technicalData.items[i].sentiment) )
           => /\ ret.overallSentiment.n = 50 * ret.overallSentiment.d
              /\ ret.trend = "stable"
              /\ Len(ret.keyInsights) = 1

\* the points with a defined sentiment, by ascending date; points of one
\* date in the order they were passed in
Chronological(items) ==
    Flatten([d \in 1..5 |->
                SelectSeq(items,
                          LAMBDA p : p.date = d /\ ~IsUndefined(p.sentiment))])

\* the sentiment a point contributes to a mean, in hundredths
SentimentOf(p) == IF IsNumber(p.sentiment) THEN p.sentiment.v ELSE 0

\* C17: the trend is taken from the qualifying points in ascending date
\* order, whatever the order of the array: for n >= 3 points the mean of the
\* first floor(n/2) is compared with the mean of the rest, 'improving' above
\* +0.1, 'declining' below -0.1, else 'stable'; for n < 3 'stable'. The
\* chronological sentiments 0.2, 0.3, 0.8, 0.85, 0.9 give 'improving' and
\* overallSentiment 0.61.
C17_TrendFromDateOrder ==
    ( /\ Returned("analyzeSentiment")
      /\ technicalData.kind = "array"
      /\ \A i \in 1..Len(technicalData.items) :
            technicalData.items[i].kind = "obj"
      /\ \E i \in 1..Len(technicalData.items) :
            ~IsUndefined(technicalData.items[i].sentiment) )
    => LET q == Chronological(technicalData.items)
           n == Len(q)
           h == n \div 2
           first == SumSeq([i \in 1..h |-> SentimentOf(q[i])])
           rest == SumSeq([i \in 1..(n - h) |-> SentimentOf(q[h + i])])
           \* (mean of the rest - mean of the first) * h * (n - h)
           diff == rest * h - first * (n - h)
       IN  /\ ret.trend = IF n < 3 THEN "stable"
                          ELSE IF diff > 10 * h * (n - h) THEN "improving"
                          ELSE IF diff < -10 * h * (n - h) THEN "declining"
                          ELSE "stable"
           /\ technicalData \in ScenarioDocData =>
                /\ ret.trend = "improving"
                /\ ret.overallSentiment.n = 61 * ret.overallSentiment.d

\* the scenario passed in reverse date order
C17_Witness ==
    /\ Returned("analyzeSentiment")
    /\ technicalData =
           Array([i \in 1..5 |->
                     DocPoint(6 - i, Num(ScenarioSentiments[6 - i]), <<>>)])
    /\ ret.trend = "improving"
    /\ ret.overallSentiment = [n |-> 305, d |-> 5]

\* calculateFundamentalScores has returned for a record whose field is a
\* number
ScoredNumber(field) ==
    /\ Returned("calculateFundamentalScores")
    /\ fundamentalData.kind = "record"
    /\ IsNumber(fundamentalData[field])

\* C18: the P/E adjustment of the value score is +2 for PE < 10, +1 for
\* 10 <= PE < 15, -2 for PE > 50, -1 for 30 < PE <= 50 and 0 otherwise: a PE
\* of 60 lowers the value score by 2. The adjustment is the returned
\* valueScore minus the value score of the same record with a neutral PE of 20.
C18_PeAdjustment ==
    ScoredNumber("pe") =>
        LET pe == fundamentalData.pe.v
            neutral == calculateValueScore(
                           [fundamentalData EXCEPT !.pe = Num(20000)])
        IN  10 * ret.valueScore - neutral =
                IF pe < 10000 THEN 200
                ELSE IF pe < 15000 THEN 100
                ELSE IF pe > 50000 THEN -200
                ELSE IF pe > 30000 THEN -100
                ELSE 0

\* C19: the profit-margin adjustment of the growth score is +2 for margin >
\* 0.20, +1 for 0.10 < margin <= 0.20, -1.5 for margin < 0, -0.5 for
\* 0 <= margin < 0.05 and 0 otherwise. The adjustment is the returned
\* growthScore minus the growth score of the same record with a neutral
\* margin of 0.07.
C19_ProfitMarginAdjustment ==
    ScoredNumber("profitMargin") =>
        LET margin == fundamentalData.profitMargin.v
            neutral == calculateGrowthScore(
                           [fundamentalData EXCEPT !.profitMargin = Num(70)])
        IN  10 * ret.growthScore - neutral =
                IF margin > 200 THEN 200
                ELSE IF margin > 100 THEN 100
                ELSE IF margin < 0 THEN -150
                ELSE IF margin < 50 THEN -50
                ELSE 0

\* C20: the debt-to-equity adjustment of the stability score is +2 for D/E <
\* 0.3, +1 for 0.3 <= D/E < 0.5, -2 for D/E > 1.5, -1 for 1.0 < D/E <= 1.5
\* and 0 otherwise. The adjustment is the returned stabilityScore minus the
\* stability score of the same record with a neutral D/E of 0.7.
C20_DebtToEquityAdjustment ==
    ScoredNumber("debtToEquity") =>
        LET de == fundamentalData.debtToEquity.v
            neutral == calculateStabilityScore(
                           [fundamentalData EXCEPT !.debtToEquity = Num(700)])
        IN  10 * ret.stabilityScore - neutral =
                IF de < 300 THEN 200
                ELSE IF de < 500 THEN 100
                ELSE IF de > 1500 THEN -200
                ELSE IF de > 1000 THEN -100
                ELSE 0

\* generateRecommendation has returned from its normal path: a non-empty
\* array and a fundamentals record
NormalPath ==
    /\ Returned("generateRecommendation")
    /\ technicalData.kind = "array"
    /\ technicalData.items # <<>>
    /\ fundamentalData.kind # "null"

\* the percentage change between the first and the last close of the trailing
\* min(20, N) points, as a fraction; 0 when an endpoint is not numeric or the
\* first close is 0
TrailingChange ==
    LET items == technicalData.items
        N == Len(items)
        first == items[N - Min(20, N) + 1]
        last == items[N]
    IN  IF IsNumber(first.close) /\ IsNumber(last.close) /\ first.close.v # 0
        THEN [n |-> 100 * (last.close.v - first.close.v), d |-> first.close.v]
        ELSE [n |-> 0, d |-> 1]

\* the last value of the 14-period RSI series, 50 when it is empty
TrailingRsi ==
    LET series == calculateRSI(technicalData, RsiPeriod)
    IN  IF series = <<>> THEN 5000 ELSE series[Len(series)]

\* 100 * score * |d| with d the denominator of TrailingChange, and |d|
CompositeScore ==
    LET change == TrailingChange
        sign == IF change.d < 0 THEN -1 ELSE 1
        overall == calculateFundamentalScores(fundamentalData).overallScore
        base == overall - (IF TrailingRsi > 7000 THEN 20 ELSE 0)
                        + (IF TrailingRsi < 3000 THEN 20 ELSE 0)
    IN  [s |-> sign * (base * change.d + change.n),
         one |-> sign * change.d]

\* C21: on the normal path the recommendation is decided by
\* score = overallScore/10 + priceChange/100 - 0.2 [last RSI > 70]
\* + 0.2 [last RSI < 30] alone: STRONG BUY for score > 0.8, BUY for
\* 0.3 < score <= 0.8, STRONG SELL for score < -0.8, SELL for
\* -0.8 <= score < -0.3, HOLD for -0.3 <= score <= 0.3, with priceChange taken
\* over the trailing min(20, N) points and the RSI 50 for an empty series.
C21_RecommendationFromScore ==
    NormalPath =>
        LET s == CompositeScore.s
            one == CompositeScore.one
        IN  ret.recommendation =
                IF s > 80 * one THEN "STRONG BUY"
                ELSE IF s > 30 * one THEN "BUY"
                ELSE IF s >= -30 * one THEN "HOLD"
                ELSE IF s >= -80 * one THEN "SELL"
                ELSE "STRONG SELL"

\* a sell decided by a fall over the trailing 20 of 21 points
C21_Witness ==
    /\ NormalPath
    /\ Len(technicalData.items) > 20
    /\ ret.recommendation = "SELL"
    /\ TrailingChange.n < 0
    /\ TrailingRsi < 3000

\* the category of an evidence string: 1 overall score, 2 P/E, 3 debt to
\* equity, 4 dividend yield, 5 price change, 6 RSI
Category(point) ==
    CASE point \in {"Strong fundamental indicators",
                    "Decent fundamental health",
                    "Weak fundamental indicators"} -> 1
      [] point \in {"Attractive P/E ratio", "High P/E ratio"} -> 2
      [] point \in {"Low debt-to-equity ratio",
                    "High debt-to-equity ratio"} -> 3
      [] point = "Strong dividend yield" -> 4
      [] point \in {"Strong recent uptrend", "Positive price momentum",
                    "Sharp recent decline", "Negative price action"} -> 5
      [] point \in {"Overbought conditions", "Oversold conditions"} -> 6

\* the adjustment of the confidence that comes with an evidence string, in
\* hundredths
Adjustment(point) ==
    CASE point \in {"Strong fundamental indicators", "Strong recent uptrend",
                    "Oversold conditions"} -> 10
      [] point \in {"Decent fundamental health", "Attractive P/E ratio",
                    "Low debt-to-equity ratio", "Strong dividend yield",
                    "Positive price momentum"} -> 5
      [] point \in {"High P/E ratio", "High debt-to-equity ratio",
                    "Negative price action"} -> -5
      [] point \in {"Weak fundamental indicators", "Sharp recent decline",
                    "Overbought conditions"} -> -10

\* the evidence string of the price-change category, <<>> when none fires:
\* > 10, else > 5, else < -10, else < -5
PriceChangePoint ==
    LET change == TrailingChange
    IN  IF FracGt(change, 10) THEN <<"Strong recent uptrend">>
        ELSE IF FracGt(change, 5) THEN <<"Positive price momentum">>
        ELSE IF FracLt(change, -10) THEN <<"Sharp recent decline">>
        ELSE IF FracLt(change, -5) THEN <<"Negative price action">>
        ELSE <<>>

InCategoryOrder(points) ==
    \A i, j \in DOMAIN points :
        i < j => Category(points[i]) < Category(points[j])

\* C22: on the normal path each of the six categories fires at most one
\* adjustment, positivePoints has one entry per positive adjustment and
\* negativePoints one entry per negative adjustment, both in category order,
\* the price-change entry is the one of the first threshold met, and the
\* confidence is 0.5 plus the fired adjustments, clamped to [0.3, 0.9].
C22_OnePointPerAdjustment ==
    NormalPath =>
        LET pos == ret.positivePoints
            neg == ret.negativePoints
            all == pos \o neg
        IN  /\ \A i \in DOMAIN pos : Adjustment(pos[i]) > 0
            /\ \A i \in DOMAIN neg : Adjustment(neg[i]) < 0
            /\ InCategoryOrder(pos)
            /\ InCategoryOrder(neg)
            /\ \A i \in DOMAIN pos : \A j \in DOMAIN neg :
                   Category(pos[i]) # Category(neg[j])
            /\ SelectSeq(all, LAMBDA point : Category(point) = 5)
                   = PriceChangePoint
            /\ (TrailingRsi > 7000) = (\E i \in DOMAIN neg : Category(neg[i]) = 6)
            /\ (TrailingRsi < 3000) = (\E i \in DOMAIN pos : Category(pos[i]) = 6)
            /\ ret.confidence =
                   Max(30, Min(90, 50 + SumSeq([i \in DOMAIN all |->
                                                   Adjustment(all[i])])))

\* five categories fire upwards and the RSI one downwards: 0.5 + 0.35 - 0.10
C22_Witness ==
    /\ NormalPath
    /\ Len(ret.positivePoints) = 5
    /\ ret.negativePoints = <<"Overbought conditions">>
    /\ ret.confidence = 75

\* C23: every element of the MACD line is the 12-period EMA minus the
\* 26-period EMA at the same source observation (index i of a series of
\* length L belongs to source index i + (N - L)), no element is computed from
\* an EMA value that does not exist, and the line has one element per source
\* index at which both EMAs are defined.
C23_MacdAligned ==
    Returned("calculateMACD") =>
        LET closePrices == [i \in 1..Len(technicalData.items) |->
                               Num(OrZero(technicalData.items[i].close))]
            ema12 == calculateEMA(closePrices, 12)
            ema26 == calculateEMA(closePrices, 26)
            both == Min(Len(ema12), Len(ema26))
        IN  /\ Len(ret.macd) = both
            /\ \A k \in 1..Len(ret.macd) :
                   /\ IsNumber(ret.macd[k])
                   /\ k <= both =>
                          ret.macd[k] = Num(ema12[Len(ema12) - both + k]
                                            - ema26[Len(ema26) - both + k])

\* a point with a numeric positive close and a numeric positive volume
PositivePriceAndVolume(d) ==
    /\ IsNumber(d.close) /\ d.close.v > 0
    /\ IsNumber(d.volume) /\ d.volume.v > 0

\* C24: calculateVolumeProfile considers only the points with a numeric
\* positive close and a numeric positive volume: without one it returns the
\* empty sequence, otherwise exactly `levels` bins in ascending price order,
\* the volume of bin i being the sum of the volumes of the valid points with
\* min + i * step <= close < min + (i + 1) * step, step = (max - min) / levels,
\* so that the volume at the maximum close is in no bin.
C24_VolumeProfileBins ==
    Returned("calculateVolumeProfile") =>
        LET valid == SelectSeq(technicalData.items, PositivePriceAndVolume)
            levels == params.priceLevels
            prices == {valid[k].close.v : k \in DOMAIN valid}
            lowest == CHOOSE x \in prices : \A y \in prices : x <= y
            highest == CHOOSE x \in prices : \A y \in prices : x >= y
            Within(i, close) ==
                /\ levels * (close - lowest) >= i * (highest - lowest)
                /\ levels * (close - lowest) < (i + 1) * (highest - lowest)
            VolumeWhere(Test(_)) ==
                SumSeq([k \in DOMAIN valid |->
                           IF Test(valid[k].close.v) THEN valid[k].volume.v
                           ELSE 0])
        IN  IF valid = <<>> THEN ret = <<>>
            ELSE /\ Len(ret) = levels
                 /\ \A i \in 1..(levels - 1) : ret[i].price <= ret[i + 1].price
                 /\ \A i \in 1..levels :
                        ret[i].volume =
                            VolumeWhere(LAMBDA close : Within(i - 1, close))
                 /\ SumSeq([i \in 1..levels |-> ret[i].volume])
                        = VolumeWhere(LAMBDA close : close < highest)

\* every observation has a positive number as its close
AllClosesPositive ==
    \A i \in DOMAIN technicalData.items :
        /\ IsNumber(technicalData.items[i].close)
        /\ technicalData.items[i].close.v > 0

\* C25: for every fundamentals record and every sequence whose closes are all
\* positive numbers, generateRecommendation returns STRONG SELL only when the
\* last RSI is above 70: overallScore is at least 3.2 and priceChange is above
\* -100, so that without the overbought penalty the composite score is above
\* -0.8.
C25_StrongSellNeedsOverbought ==
    /\ Returned("calculateFundamentalScores") => ret.overallScore >= 32
    /\ (NormalPath /\ AllClosesPositive) =>
        /\ calculateFundamentalScores(fundamentalData).overallScore >= 32
        /\ FracGt(TrailingChange, -100)
        /\ TrailingRsi <= 7000 =>
               /\ CompositeScore.s > -80 * CompositeScore.one
               /\ ret.recommendation # "STRONG SELL"

\* the weakest fundamentals, a fall of more than 99 % over 20 points and an
\* RSI of 0: the score is about -0.48
C25_Witness ==
    /\ NormalPath
    /\ AllClosesPositive
    /\ Len(technicalData.items) >= 20
    /\ calculateFundamentalScores(fundamentalData).overallScore = 32
    /\ FracLt(TrailingChange, -99)
    /\ TrailingRsi = 0
    /\ ret.recommendation = "SELL"

\* more than 14 points, and no pair of closes among the last 14 pairs that
\* decreases
NoDecreaseInLastChanges ==
    LET items == technicalData.items
        N == Len(items)
    IN  /\ N > RsiPeriod
        /\ \A i \in (N - RsiPeriod + 1)..N :
               (IsNumber(items[i - 1].close) /\ IsNumber(items[i].close))
                   => items[i].close.v >= items[i - 1].close.v

\* C26: for more than 14 points whose last 14 close-to-close changes contain
\* no decrease (a flat series included) the last RSI is 100: the negative
\* points end with 'Overbought conditions', the confidence is 0.5 plus the
\* adjustments of the other points minus 0.10, clamped, and the recommendation
\* is the one of overallScore/10 + priceChange/100 - 0.2.
C26_NoDecreaseIsOverbought ==
    (NormalPath /\ NoDecreaseInLastChanges) =>
        LET rsiValues == calculateRSI(technicalData, RsiPeriod)
            neg == ret.negativePoints
            others == ret.positivePoints \o SubSeq(neg, 1, Len(neg) - 1)
            change == TrailingChange
            sign == IF change.d < 0 THEN -1 ELSE 1
            overall == calculateFundamentalScores(fundamentalData).overallScore
            s == sign * ((overall - 20) * change.d + change.n)
            one == sign * change.d
        IN  /\ rsiValues # <<>>
            /\ rsiValues[Len(rsiValues)] = 10000
            /\ neg # <<>>
            /\ neg[Len(neg)] = "Overbought conditions"
            /\ \A i \in DOMAIN others : others[i] # "Overbought conditions"
            /\ \A i \in DOMAIN others : others[i] # "Oversold conditions"
            /\ ret.confidence =
                   Max(30, Min(90, 50 - 10
                                   + SumSeq([i \in DOMAIN others |->
                                                Adjustment(others[i])])))
            /\ ret.recommendation =
                   IF s > 80 * one THEN "STRONG BUY"
                   ELSE IF s > 30 * one THEN "BUY"
                   ELSE IF s >= -30 * one THEN "HOLD"
                   ELSE IF s >= -80 * one THEN "SELL"
                   ELSE "STRONG SELL"

\* 19 points, all with close = 50: 0.65 - 0.10 and 0.72 - 0.2
C26_Witness ==
    /\ NormalPath
    /\ technicalData = Array(Run(5000, 19))
    /\ fundamentalData = ScenarioFundamentals
    /\ ret.negativePoints = <<"Overbought conditions">>
    /\ ret.confidence = 55
    /\ ret.recommendation = "BUY"

\* C27: ensureValidData is idempotent: applied to a sequence it has returned
\* it gives an element-wise equal sequence (same length, order, dates and
\* closes, and the other fields with them), for every raw input.
C27_SanitizerIdempotent ==
    (op = "ensureValidData" /\ validatedStockData.done) =>
        /\ Len(validatedStockData.items) = Len(ret)
        /\ \A i \in 1..Len(ret) :
               /\ validatedStockData.items[i].date = ret[i].date
               /\ validatedStockData.items[i].close = ret[i].close
               /\ validatedStockData.items[i] = ret[i]

\* the second pass over the result for a null entry and an entry whose close
\* was taken from its sentiment
C27_Witness ==
    /\ op = "ensureValidData"
    /\ validatedStockData.done
    /\ Len(ret) = 2
    /\ technicalData.items[1].kind = "null"
    /\ IsUndefined(technicalData.items[2].close)
    /\ technicalData.items[2].date = 0
    /\ ret[1] = Placeholder
    /\ ret[2].close = Num(61)
    /\ ret[2].date = Today

\* C28: once handleRemoveFile has run while the upload of a file was pending
\* (progress interval or processing timeout), that upload is cancelled:
\* onFileUploaded is never called for the file, and while no new file is
\* chosen the component stays with file = null, isUploading = false,
\* isUploaded = false and uploadProgress = 0.
C28_RemovedUploadIsCancelled ==
    /\ \A i \in DOMAIN uploaded : uploaded[i].file \notin removed
    /\ (removed # {} /\ file = NoFile) =>
           /\ ~isUploading
           /\ ~isUploaded
           /\ uploadProgress = 0

\* C29: the dataset handed to onFileUploaded has the kind auto-detected from
\* the file's extension, whatever the toggle showed before: 'marketData' for
\* csv, xlsx and xls, 'documentAnalysis' for pdf, doc, docx and txt.
C29_DatasetKindFromExtension ==
    \A i \in DOMAIN uploaded :
        /\ uploaded[i].file.ext \in {"csv", "xlsx", "xls"}
               => uploaded[i].dataType = "marketData"
        /\ uploaded[i].file.ext \in {"pdf", "doc", "docx", "txt"}
               => uploaded[i].dataType = "documentAnalysis"

\* C30: for a given stockData the dashboard generates its insights once and
\* is then quiescent: after generateInsights has run and the insights are
\* stored, no timer is pending and generateInsights does not run again until
\* stockData changes, with fundamentalData supplied or absent.
C30_InsightsGeneratedOnce ==
    stockData # NoStockData =>
        /\ generated <= 1
        /\ generated = 1 => ~timer

====
